---- MODULE Spec2Model ----
(***************************************************************************)
(* Model of the cut-set congestion estimator                               *)
(* (capacity_bound_estimation/cutsets_bounds.py) and of the TrainState     *)
(* container and the training utilities (xlron/train/train_utils.py).      *)
(*                                                                         *)
(* Conventions.  Node ids are 0..n-1.  A vector over nodes (a partition    *)
(* mask) is a sequence of length n whose position i+1 holds the entry of   *)
(* node i.  A matrix over nodes is a function on (0..n-1) \X (0..n-1).     *)
(* A float is modelled by the exact rational it holds, as a reduced        *)
(* fraction <<num, den>> with den > 0 (0.0 is <<0, 1>>): every float the   *)
(* estimator computes is a quotient of two small integers, and IEEE        *)
(* division rounds equal quotients to equal floats.                        *)
(***************************************************************************)
EXTENDS Integers, Sequences, FiniteSets, TLC

VARIABLES
    cfg,            \* the estimator's inputs: topology, traffic matrix, flags
    pc,             \* position of the estimator: "batch", "iter", "post", "done"
    proc,           \* process (vmap lane) being evaluated, 0-based
    iter,           \* iteration of the outer scan, 0-based
    batch,          \* batch of the inner scan, 0-based
    batch_results,  \* stacked outputs of batch_eval_sort in this iteration
    heavy_cut_sets, \* flattened outputs of find_congested_cuts_exhaustive
    last_scored,    \* scoring records of the batch evaluated last
    scored,         \* every partition mask scored so far
    post,           \* the values main_jax computes after the search
    train_state,    \* the TrainState instance held by the training loop
    last_call,      \* arguments and locals of the last TrainState call
    call,           \* the last call of a training utility: arguments and outcome
    fs,             \* the paths that exist in the file system
    warmup          \* the running warmup closure: loop index and carried values

vars == <<cfg, pc, proc, iter, batch, batch_results, heavy_cut_sets,
          last_scored, scored, post, train_state, last_call, call, fs, warmup>>

est_vars == <<cfg, pc, proc, iter, batch, batch_results, heavy_cut_sets,
              last_scored, scored, post>>

train_vars == <<train_state, last_call>>

util_vars == <<call, fs, warmup>>

(***************************************************************************)
(* Bounds of the model.                                                    *)
(***************************************************************************)
MaxEnvs == 3        \* NUM_ENVS ranges over 1..MaxEnvs
MaxBatch == 4       \* CUTSET_BATCH_SIZE ranges over 1..MaxBatch, and 2^n
MaxIters == 2       \* CUTSET_ITERATIONS ranges over 1..MaxIters
MaxTopK == 3        \* CUTSET_TOP_K ranges over 1..MaxTopK
MaxTraffic == 2     \* traffic matrix entries range over 0..MaxTraffic
MaxSteps == 3       \* apply_gradients is called at most MaxSteps times
MaxGrad == 1        \* gradient leaves range over 0..MaxGrad

(***************************************************************************)
(* Arithmetic helpers.                                                     *)
(***************************************************************************)
Min2(a, b) == IF a <= b THEN a ELSE b

Max2(a, b) == IF a >= b THEN a ELSE b

\* math.ceil(a / b / c / d) of main_jax for positive integers.
CeilDiv(a, b) == (a + b - 1) \div b

RECURSIVE Pow2(_)
Pow2(k) == IF k = 0 THEN 1 ELSE 2 * Pow2(k - 1)

RECURSIVE Gcd(_, _)
Gcd(a, b) == IF b = 0 THEN a ELSE Gcd(b, a % b)

\* The float a / b (a, b >= 0) as a reduced fraction; <<0, 0>> is the NaN of 0 / 0
\* and <<1, 0>> the inf of a / 0.
Frac(a, b) ==
    LET g == Gcd(a, b)
    IN IF g = 0 THEN <<0, 0>> ELSE <<a \div g, b \div g>>

Zero == Frac(0, 1)

FracLess(x, y) == x[1] * y[2] < y[1] * x[2]

FracMul(x, k) == Frac(x[1] * k, x[2])

RECURSIVE SumSeq(_)
SumSeq(s) == IF s = <<>> THEN 0 ELSE Head(s) + SumSeq(Tail(s))

RECURSIVE MinSeq(_)
MinSeq(s) == IF Len(s) = 1 THEN s[1] ELSE Min2(s[1], MinSeq(Tail(s)))

\* a ^ b on non-negative integers.
RECURSIVE Xor(_, _)
Xor(a, b) ==
    IF a = 0 THEN b
    ELSE IF b = 0 THEN a
    ELSE (((a % 2) + (b % 2)) % 2) + 2 * Xor(a \div 2, b \div 2)

\* a >> 1 on non-negative integers.
ShiftRight1(a) == a \div 2

Nodes(n) == 0 .. (n - 1)

(***************************************************************************)
(* generate_gray_code_masks(n_nodes, max_batch_size, start)                *)
(***************************************************************************)
\* A Gray conversion shifting by two places instead of one.
GrayShiftTwo(k) == Xor(k, k \div 4)

\* Convert to Gray code: n ^ (n >> 1).
Gray(k) == Xor(k, ShiftRight1(k))

\* One row of masks: (number // powers_of_two) % 2 with
\* powers_of_two = 2^(n_nodes-1), ..., 2^0.
MaskOf(n_nodes, number) ==
    [c \in 1 .. n_nodes |-> (number \div Pow2(n_nodes - c)) % 2] \o <<>>

generate_gray_code_masks(n_nodes, max_batch_size, start) ==
    [r \in 1 .. max_batch_size |-> MaskOf(n_nodes, Gray((r - 1) + start))] \o <<>>

(***************************************************************************)
(* Inputs of main_jax: the topology returned by make_graph, as its number  *)
(* of nodes and sorted(graph.edges()), and the traffic matrix.             *)
\* The 4-node ring 0-1, 1-2, 2-3, 3-0.
Ring4 == [n |-> 4, edges |-> << <<0, 1>>, <<0, 3>>, <<1, 2>>, <<2, 3>> >>]

\* The triangle.
Triangle3 == [n |-> 3, edges |-> << <<0, 1>>, <<0, 2>>, <<1, 2>> >>]

\* The 4-node path 0-1-2-3.
Path4 == [n |-> 4, edges |-> << <<0, 1>>, <<1, 2>>, <<2, 3>> >>]

\* Two components: the links 0-1 and 2-3.
TwoPairs4 == [n |-> 4, edges |-> << <<0, 1>>, <<2, 3>> >>]

\* Node 0 carries no link.
Isolated3 == [n |-> 3, edges |-> << <<1, 2>> >>]

\* The ring with a chord, 4 nodes and 5 links.
Chord4 == [n |-> 4, edges |-> << <<0, 1>>, <<0, 2>>, <<0, 3>>, <<1, 2>>, <<2, 3>> >>]

Topologies == {Ring4, Triangle3, Path4, TwoPairs4, Isolated3, Chord4}

source_nodes_of(graph) == [k \in 1 .. Len(graph.edges) |-> graph.edges[k][1]] \o <<>>

destination_nodes_of(graph) ==
    [k \in 1 .. Len(graph.edges) |-> graph.edges[k][2]] \o <<>>

\* nx.adjacency_matrix(graph, weight="").todense()
adj_matrix_of(graph) ==
    [ij \in Nodes(graph.n) \X Nodes(graph.n) |->
        IF \E k \in 1 .. Len(graph.edges) :
              \/ graph.edges[k] = <<ij[1], ij[2]>>
              \/ graph.edges[k] = <<ij[2], ij[1]>>
        THEN 1 ELSE 0]

\* The traffic matrices: zero diagonal, non-negative entries.
TrafficMatrices(n) ==
    { [ij \in Nodes(n) \X Nodes(n) |->
          IF ij[1] = ij[2] THEN 0
          ELSE (a + b * ij[1] + ij[2]) % (MaxTraffic + 1)] :
      a \in 0 .. 1, b \in 0 .. 1 }
    \cup { [ij \in Nodes(n) \X Nodes(n) |-> IF ij[1] = ij[2] THEN 0 ELSE 1] }

\* The entries of a node matrix, row by row.
Entries(M, n) == [k \in 1 .. (n * n) |-> M[<<(k - 1) \div n, (k - 1) % n>>]]

(***************************************************************************)
(* edges_to_adjacency(path_array, source_nodes, dest_nodes, num_nodes)     *)
(***************************************************************************)
\* fori_loop(0, len(path_array), update_adj, adjacency) from index idx on.
RECURSIVE update_adj(_, _, _, _, _)
update_adj(idx, adj, path_array, source_nodes, dest_nodes) ==
    IF idx > Len(path_array) THEN adj
    ELSE LET s == source_nodes[idx]
             d == dest_nodes[idx]
             adj1 == [adj EXCEPT ![<<s, d>>] = path_array[idx]]
             adj2 == [adj1 EXCEPT ![<<d, s>>] = path_array[idx]]
         IN update_adj(idx + 1, adj2, path_array, source_nodes, dest_nodes)

edges_to_adjacency(path_array, source_nodes, dest_nodes, num_nodes) ==
    update_adj(1, [ij \in Nodes(num_nodes) \X Nodes(num_nodes) |-> 0],
               path_array, source_nodes, dest_nodes)

(***************************************************************************)
(* find_cutset_edges(p1, p2, source_nodes, dest_nodes)                     *)
(***************************************************************************)
is_cut_edge(p1, p2, u, v) ==
    \/ (p1[u + 1] > 0 /\ p2[v + 1] > 0)
    \/ (p1[v + 1] > 0 /\ p2[u + 1] > 0)

find_cutset_edges(p1, p2, source_nodes, dest_nodes) ==
    LET offset == 0 - MinSeq(source_nodes \o dest_nodes)
    IN [k \in 1 .. Len(source_nodes) |->
          IF is_cut_edge(p1, p2, source_nodes[k] + offset, dest_nodes[k] + offset)
          THEN 1 ELSE 0] \o <<>>

Complement(mask) == [c \in 1 .. Len(mask) |-> 1 - mask[c]] \o <<>>

(***************************************************************************)
(* calculate_congestion(partition_mask, adjacency_matrix, traffic_matrix,  *)
(*                      source_nodes, dest_nodes)                          *)
(***************************************************************************)
\* cut_size = jnp.sum(cut_matrix)
cut_size_of(cut_matrix, num_nodes) == SumSeq(Entries(cut_matrix, num_nodes))

\* traffic_across_cut = sum(traffic_matrix * (partition1[:, None] * partition2[None, :]))
traffic_across_cut_of(traffic_matrix, partition1, partition2, num_nodes) ==
    SumSeq([k \in 1 .. (num_nodes * num_nodes) |->
              traffic_matrix[<<(k - 1) \div num_nodes, (k - 1) % num_nodes>>]
              * partition1[((k - 1) \div num_nodes) + 1]
              * partition2[((k - 1) % num_nodes) + 1]])

\* The division without its guard.
raw_congestion_unguarded(traffic_across_cut, cut_size) ==
    Frac(traffic_across_cut, cut_size)

\* congestion = jnp.where(cut_size > 0, traffic_across_cut / cut_size, 0.)
raw_congestion(traffic_across_cut, cut_size) ==
    IF cut_size > 0 THEN Frac(traffic_across_cut, cut_size) ELSE Zero

\* The nodes that a walk from the nodes of S reaches in the graph of matrix m.
RECURSIVE ReachedFrom(_, _, _)
ReachedFrom(S, m, num_nodes) ==
    IF \E j \in Nodes(num_nodes) \ S : \E i \in S : m[<<i, j>>] # 0
    THEN ReachedFrom(S \cup {j \in Nodes(num_nodes) : \E i \in S : m[<<i, j>>] # 0},
                     m, num_nodes)
    ELSE S

\* A gate that asks for a walk between every two nodes of the side.
connected_by_walks(partition, partitioned_adj, num_nodes) ==
    \A v \in Nodes(num_nodes) :
        partition[v + 1] > 0
            => /\ \E w \in Nodes(num_nodes) \ {v} : partition[w + 1] > 0
               /\ \A w \in Nodes(num_nodes) :
                     partition[w + 1] > 0
                        => w \in ReachedFrom({v},
                                [ij \in Nodes(num_nodes) \X Nodes(num_nodes) |->
                                    IF partition[ij[1] + 1] * partition[ij[2] + 1] > 0
                                    THEN partitioned_adj[ij] ELSE 0], num_nodes)

\* A gate that passes whatever the partition.
connected_always(partition, partitioned_adj, num_nodes) == TRUE

\* masked = where(outer(partition, partition) > 0, partitioned_adj, 0)
\* check = where(partition > 0, sum(masked, axis=0) > 0, True); all(check)
connected(partition, partitioned_adj, num_nodes) ==
    LET masked == [ij \in Nodes(num_nodes) \X Nodes(num_nodes) |->
                     IF partition[ij[1] + 1] * partition[ij[2] + 1] > 0
                     THEN partitioned_adj[ij] ELSE 0]
        check == [j \in Nodes(num_nodes) |->
                     IF partition[j + 1] > 0
                     THEN SumSeq([i \in 1 .. num_nodes |-> masked[<<i - 1, j>>]]) > 0
                     ELSE TRUE]
    IN \A j \in Nodes(num_nodes) : check[j]

\* calculate_congestion from the cut matrix on: its locals and the value it
\* returns (congestion * both_connected).
congestion_with_cut(partition1, partition2, edges, cut_matrix, adjacency_matrix, traffic_matrix) ==
    LET num_nodes == Len(partition1)
        cut_size == cut_size_of(cut_matrix, num_nodes)
        traffic_across_cut ==
            traffic_across_cut_of(traffic_matrix, partition1, partition2, num_nodes)
        congestion == raw_congestion(traffic_across_cut, cut_size)
        partitioned_adj == [ij \in Nodes(num_nodes) \X Nodes(num_nodes) |->
                              adjacency_matrix[ij] - cut_matrix[ij]]
        connected1 == connected(partition1, partitioned_adj, num_nodes)
        connected2 == connected(partition2, partitioned_adj, num_nodes)
        both_connected == IF connected1 /\ connected2 THEN 1 ELSE 0
    IN [mask |-> partition1,
        edges |-> edges,
        cut_size |-> cut_size,
        traffic_across_cut |-> traffic_across_cut,
        raw |-> congestion,
        both_connected |-> both_connected,
        congestion |-> FracMul(congestion, both_connected)]

\* calculate_congestion from the cutset edges on.
congestion_with_edges(partition1, partition2, edges, adjacency_matrix, traffic_matrix, source_nodes, dest_nodes) ==
    congestion_with_cut(partition1, partition2, edges,
                        edges_to_adjacency(edges, source_nodes, dest_nodes,
                                           Len(partition1)),
                        adjacency_matrix, traffic_matrix)

\* The locals of one call of calculate_congestion and the value it returns.
congestion_locals(partition_mask, adjacency_matrix, traffic_matrix, source_nodes, dest_nodes) ==
    congestion_with_edges(partition_mask, Complement(partition_mask),
                          find_cutset_edges(partition_mask,
                                            Complement(partition_mask),
                                            source_nodes, dest_nodes),
                          adjacency_matrix, traffic_matrix, source_nodes, dest_nodes)

calculate_congestion(partition_mask, adjacency_matrix, traffic_matrix, source_nodes, dest_nodes) ==
    congestion_locals(partition_mask, adjacency_matrix, traffic_matrix,
                      source_nodes, dest_nodes).congestion

(***************************************************************************)
(* Sorting and selection helpers of the search and of main_jax.            *)
(***************************************************************************)
\* The number of entries that a stable ascending sort puts before entry i.
ranks(c) ==
    [i \in 1 .. Len(c) |->
        Cardinality({j \in 1 .. Len(c) :
                        FracLess(c[j], c[i]) \/ (c[j] = c[i] /\ j < i)})] \o <<>>

order_of(rk) ==
    [r \in 1 .. Len(rk) |-> CHOOSE i \in 1 .. Len(rk) : rk[i] = r - 1] \o <<>>

\* jnp.argsort of a sequence of floats: ascending and stable.
argsort(c) == order_of(ranks(c))

\* s[-k:] for k >= 1.
last_k(s, k) == SubSeq(s, IF Len(s) > k THEN Len(s) - k + 1 ELSE 1, Len(s))

RECURSIVE Flatten(_)
Flatten(ss) == IF ss = <<>> THEN <<>> ELSE Head(ss) \o Flatten(Tail(ss))

\* A 0/1 row read as a binary number, first entry most significant.
RECURSIVE RowKey(_)
RowKey(row) ==
    IF row = <<>> THEN 0
    ELSE row[Len(row)] + 2 * RowKey(SubSeq(row, 1, Len(row) - 1))

row_keys(rows) == [i \in 1 .. Len(rows) |-> RowKey(rows[i])] \o <<>>

\* The indices in chosen, ordered by the key of their row.
order_by_key(keys, chosen) ==
    [r \in 1 .. Cardinality(chosen) |->
        CHOOSE i \in chosen :
            Cardinality({j \in chosen : keys[j] < keys[i]}) = r - 1] \o <<>>

first_occurrences(keys) ==
    {i \in 1 .. Len(keys) : \A j \in 1 .. Len(keys) : j < i => keys[j] # keys[i]}

last_occurrences(keys) ==
    {i \in 1 .. Len(keys) : \A j \in 1 .. Len(keys) : j > i => keys[j] # keys[i]}

unique_by_keys(keys) == order_by_key(keys, first_occurrences(keys))

unique_by_keys_last(keys) == order_by_key(keys, last_occurrences(keys))

\* Indices keeping the last occurrence of every row.
unique_indices_last(rows) == unique_by_keys_last(row_keys(rows))

\* jnp.unique(rows, axis=0, return_index=True)[1]: for every distinct row the
\* index of its first occurrence, the rows in lexicographic order.
unique_indices_of(rows) == unique_by_keys(row_keys(rows))

(***************************************************************************)
(* main_jax, exhaustive mode: the split of the 2^n masks.                  *)
(***************************************************************************)
total_combinations(c) == Pow2(c.graph.n)

parallel_processes(c) == c.NUM_ENVS

batch_size(c) == Min2(c.CUTSET_BATCH_SIZE, total_combinations(c))

batches_per_process(c) ==
    CeilDiv(total_combinations(c), parallel_processes(c) * batch_size(c))

iterations_per_process(c) == Min2(c.CUTSET_ITERATIONS, batches_per_process(c))

batches_per_iteration(c) ==
    CeilDiv(total_combinations(c),
            parallel_processes(c) * iterations_per_process(c) * batch_size(c))

\* starts = jnp.arange(parallel_processes) * iterations_per_process * batch_size
starts(c, p) == p * iterations_per_process(c) * batch_size(c)

\* The calls of find_congested_cuts_exhaustive main_jax makes: with DISABLE_JIT
\* one call that is handed the whole array starts, otherwise the vmap over
\* starts, one call per entry.
exhaustive_calls(c) == IF c.DISABLE_JIT THEN 1 ELSE parallel_processes(c)

\* jnp.arange(num_iterations) + start with start the whole array starts: the
\* shapes (num_iterations,) and (parallel_processes,) broadcast only when they
\* are equal or one of them is 1.
broadcast_fails(c) ==
    /\ c.DISABLE_JIT
    /\ iterations_per_process(c) > 1
    /\ parallel_processes(c) > 1
    /\ iterations_per_process(c) # parallel_processes(c)

\* The length of xs, the number of iterations the outer scan of one call runs.
scan_length(c) ==
    IF c.DISABLE_JIT
    THEN Max2(iterations_per_process(c), parallel_processes(c))
    ELSE iterations_per_process(c)

\* xs = (jnp.arange(num_iterations) + start) * num_batches_per_iteration, entry
\* it of call p.  Under the vmap start is the scalar starts[p]; with
\* DISABLE_JIT start is the array starts and the sum is elementwise, a
\* one-entry operand being repeated.
xs(c, p, it) ==
    IF c.DISABLE_JIT
    THEN ((IF iterations_per_process(c) = 1 THEN 0 ELSE it)
          + starts(c, IF parallel_processes(c) = 1 THEN 0 ELSE it))
         * batches_per_iteration(c)
    ELSE (it + starts(c, p)) * batches_per_iteration(c)

\* The Gray-code index of the first mask of batch b of iteration it of
\* call p: batch_indices = arange(num_batches_per_iteration) + i,
\* j = j * max_batch_size.
batch_start(c, p, it, b) == (b + xs(c, p, it)) * batch_size(c)

NoPost == [cutset_edges |-> <<>>, unique_indices |-> <<>>, unique |-> <<>>,
           top_k_indices |-> <<>>, result |-> <<>>]

NoTrainState == [step |-> 0, apply_fn |-> "none", params |-> <<>>, tx |-> "none",
                 opt_state |-> <<>>]

NoCall == [op |-> "none", calls |-> 0]

\* No training utility has been called, and no warmup closure is running.
Idle == [fn |-> "none"]

NoWarmup == [fn |-> "none"]

UtilIdle ==
    /\ call = Idle
    /\ fs = {}
    /\ warmup = NoWarmup

Init ==
    /\ \E g \in Topologies, e \in 1 .. MaxEnvs, its \in 1 .. MaxIters,
          k \in 1 .. MaxTopK, disable_jit \in BOOLEAN :
         \E t \in TrafficMatrices(g.n), bsz \in (1 .. MaxBatch) \cup {Pow2(g.n)} :
            cfg = [DISABLE_JIT |-> disable_jit, graph |-> g,
                   source_nodes |-> source_nodes_of(g),
                   destination_nodes |-> destination_nodes_of(g),
                   adj_matrix |-> adj_matrix_of(g),
                   traffic_matrix |-> t, NUM_ENVS |-> e,
                   CUTSET_BATCH_SIZE |-> bsz, CUTSET_ITERATIONS |-> its,
                   CUTSET_TOP_K |-> k]
    /\ pc = "batch"
    /\ proc = 0
    /\ iter = 0
    /\ batch = 0
    /\ batch_results = <<>>
    /\ heavy_cut_sets = <<>>
    /\ last_scored = <<>>
    /\ scored = {}
    /\ post = NoPost
    /\ train_state = NoTrainState
    /\ last_call = NoCall
    /\ UtilIdle

(***************************************************************************)
(* find_congested_cuts_exhaustive: batch_eval_sort, one batch.             *)
(***************************************************************************)
BatchEvalSort ==
    /\ pc = "batch"
    /\ ~broadcast_fails(cfg)
    /\ \E j \in {batch_start(cfg, proc, iter, batch)} :
       \E new_masks \in {generate_gray_code_masks(cfg.graph.n, batch_size(cfg), j)} :
       \E locals \in {[r \in 1 .. Len(new_masks) |->
                         congestion_locals(new_masks[r], cfg.adj_matrix,
                                           cfg.traffic_matrix, cfg.source_nodes,
                                           cfg.destination_nodes)] \o <<>>} :
       \E new_congestions \in
             {[r \in 1 .. Len(new_masks) |-> locals[r].congestion] \o <<>>} :
       \E top_indices \in {last_k(argsort(new_congestions), cfg.CUTSET_TOP_K)} :
          /\ batch_results' = batch_results \o
                 [t \in 1 .. Len(top_indices) |->
                     [congestion |-> new_congestions[top_indices[t]],
                      mask |-> new_masks[top_indices[t]]]]
          /\ last_scored' = [r \in 1 .. Len(new_masks) |->
                               [index |-> j + (r - 1)] @@ locals[r]]
          /\ scored' = scored \cup {new_masks[r] : r \in 1 .. Len(new_masks)}
    /\ IF batch + 1 < batches_per_iteration(cfg)
       THEN batch' = batch + 1 /\ pc' = "batch"
       ELSE batch' = 0 /\ pc' = "iter"
    /\ UNCHANGED <<cfg, proc, iter, heavy_cut_sets, post, train_vars, util_vars>>

(***************************************************************************)
(* find_congested_cuts_exhaustive: the end of find_congested_cuts_iter     *)
(* (the top_k of the iteration's batches) and, after the last iteration,   *)
(* the process's return value (congestions, partition1, partition2).       *)
(***************************************************************************)
IterSelect ==
    /\ pc = "iter"
    /\ \E result_congestions \in
             {[r \in 1 .. Len(batch_results) |-> batch_results[r].congestion]
              \o <<>>} :
       \E sorted_indices \in
             {last_k(argsort(result_congestions), cfg.CUTSET_TOP_K)} :
       \E out \in {[t \in 1 .. Len(sorted_indices) |->
                      [congestion |-> result_congestions[sorted_indices[t]],
                       partition1 |-> batch_results[sorted_indices[t]].mask,
                       partition2 |->
                           Complement(batch_results[sorted_indices[t]].mask)]]
                   \o <<>>} :
          heavy_cut_sets' =
              IF iter = 0
              THEN Append(heavy_cut_sets, out)
              ELSE [heavy_cut_sets EXCEPT ![proc + 1] = @ \o out]
    /\ batch_results' = <<>>
    /\ IF iter + 1 < scan_length(cfg)
       THEN iter' = iter + 1 /\ proc' = proc /\ pc' = "batch"
       ELSE IF proc + 1 < exhaustive_calls(cfg)
       THEN iter' = 0 /\ proc' = proc + 1 /\ pc' = "batch"
       ELSE iter' = iter /\ proc' = proc /\ pc' = "post"
    /\ UNCHANGED <<cfg, batch, last_scored, scored, post, train_vars, util_vars>>

(***************************************************************************)
(* main_jax with DISABLE_JIT when starts and arange(num_iterations) do not *)
(* broadcast: the sum in the xs of the outer scan raises before any batch  *)
(* is scored, and main_jax ends with the exception.                        *)
(***************************************************************************)
ExhaustiveRaises ==
    /\ pc = "batch"
    /\ broadcast_fails(cfg)
    /\ pc' = "raised"
    /\ UNCHANGED <<cfg, proc, iter, batch, batch_results, heavy_cut_sets,
                   last_scored, scored, post, train_vars, util_vars>>

(***************************************************************************)
(* main_jax after the search: flatten, recompute the cutset edges, drop    *)
(* duplicate cutset rows, select the top_k.                                *)
(***************************************************************************)
PostProcess ==
    /\ pc = "post"
    /\ \E flat \in {Flatten(heavy_cut_sets)} :
       \E cutset_edges \in
             {[i \in 1 .. Len(flat) |->
                 find_cutset_edges(flat[i].partition1, flat[i].partition2,
                                   cfg.source_nodes, cfg.destination_nodes)]
              \o <<>>} :
       \E unique_indices \in {unique_indices_of(cutset_edges)} :
       \E unique \in
             {[u \in 1 .. Len(unique_indices) |->
                 [congestion |-> flat[unique_indices[u]].congestion,
                  partition1 |-> flat[unique_indices[u]].partition1,
                  partition2 |-> flat[unique_indices[u]].partition2,
                  cutset_edges |-> cutset_edges[unique_indices[u]]]] \o <<>>} :
       \E top_k_indices \in
             {last_k(argsort([u \in 1 .. Len(unique) |-> unique[u].congestion]
                             \o <<>>),
                     cfg.CUTSET_TOP_K)} :
          post' = [cutset_edges |-> cutset_edges,
                   unique_indices |-> unique_indices,
                   unique |-> unique,
                   top_k_indices |-> top_k_indices,
                   result |-> [t \in 1 .. Len(top_k_indices) |->
                                 unique[top_k_indices[t]]]]
    /\ pc' = "done"
    /\ UNCHANGED <<cfg, proc, iter, batch, batch_results, heavy_cut_sets,
                   last_scored, scored, train_vars, util_vars>>

Next == BatchEvalSort \/ IterSelect \/ ExhaustiveRaises \/ PostProcess

Spec == Init /\ [][Next]_vars

(***************************************************************************)
(* The notions the properties are stated in, read off the topology itself. *)
(***************************************************************************)
AllMasks(n) == [1 .. n -> {0, 1}]

InPartition1(mask, v) == mask[v + 1] = 1

\* The edges of the sorted edge list with exactly one endpoint in the mask.
CutEdges(g, mask) ==
    {k \in 1 .. Len(g.edges) :
        InPartition1(mask, g.edges[k][1]) # InPartition1(mask, g.edges[k][2])}

Adjacent(g, v, w) ==
    \E k \in 1 .. Len(g.edges) : g.edges[k] = <<v, w>> \/ g.edges[k] = <<w, v>>

\* Every node has a neighbour on its own side of the partition.
KeepsSameSideNeighbour(g, mask) ==
    \A v \in Nodes(g.n) :
        \E w \in Nodes(g.n) : w # v /\ mask[w + 1] = mask[v + 1] /\ Adjacent(g, v, w)

RECURSIVE SumOver(_, _)
SumOver(S, f) ==
    IF S = {} THEN 0
    ELSE LET x == CHOOSE y \in S : TRUE IN f[x] + SumOver(S \ {x}, f)

\* The traffic from the nodes of the mask to the other nodes.
TrafficCrossing(t, mask, n) ==
    SumOver({ij \in Nodes(n) \X Nodes(n) :
                InPartition1(mask, ij[1]) /\ ~InPartition1(mask, ij[2])}, t)

OneBitApart(a, b) == Cardinality({c \in 1 .. Len(a) : a[c] # b[c]}) = 1

SearchOver == pc \in {"post", "done"}

\* C1: in exhaustive mode the masks scored over all processes, iterations and
\* batches contain every one of the 2^n_nodes binary masks of length n_nodes.
C1_EveryMaskScored == SearchOver => scored = AllMasks(cfg.graph.n)

\* C2: for a mask with a non-empty cutset that passes the connectivity gate,
\* calculate_congestion returns traffic_crossing / cut_size, cut_size being the
\* number of cutset edges, each undirected edge counted once.
C2_TrafficOverCutEdges ==
    \A r \in 1 .. Len(last_scored) :
        \A cut \in {CutEdges(cfg.graph, last_scored[r].mask)} :
            (cut # {} /\ KeepsSameSideNeighbour(cfg.graph, last_scored[r].mask))
            => last_scored[r].congestion =
                   Frac(TrafficCrossing(cfg.traffic_matrix, last_scored[r].mask,
                                        cfg.graph.n),
                        Cardinality(cut))

\* C3: row r of generate_gray_code_masks(n_nodes, size, start) holds the n_nodes
\* binary digits, most significant first, of (start+r) XOR ((start+r) >> 1); for
\* start = 0 and size = 2^n_nodes the rows are pairwise distinct, are all the
\* n_nodes-bit strings, and consecutive rows differ in exactly one bit.
C3_GrayCodeMasks ==
    /\ \A r \in 1 .. Len(last_scored) :
          /\ Len(last_scored[r].mask) = cfg.graph.n
          /\ last_scored[r].mask \in AllMasks(cfg.graph.n)
          /\ RowKey(last_scored[r].mask) =
                 Xor(last_scored[r].index, last_scored[r].index \div 2)
                 % Pow2(cfg.graph.n)
    /\ (Len(last_scored) = Pow2(cfg.graph.n) /\ last_scored[1].index = 0)
       => /\ \A q, r \in 1 .. Len(last_scored) :
                q # r => last_scored[q].mask # last_scored[r].mask
          /\ {last_scored[r].mask : r \in 1 .. Len(last_scored)}
                 = AllMasks(cfg.graph.n)
          /\ \A r \in 1 .. (Len(last_scored) - 1) :
                OneBitApart(last_scored[r].mask, last_scored[r + 1].mask)

C3_Witness ==
    /\ cfg.graph = Ring4
    /\ Len(last_scored) = Pow2(cfg.graph.n)
    /\ last_scored[1].index = 0

\* C4: calculate_congestion returns congestion 0, with no division fault,
\* whenever the cutset is empty, in particular when partition1 holds all nodes
\* or no node.
C4_EmptyCutsetScoresZero ==
    \A r \in 1 .. Len(last_scored) :
        (\/ CutEdges(cfg.graph, last_scored[r].mask) = {}
         \/ last_scored[r].cut_size = 0)
        => last_scored[r].congestion = Zero

C4_Witness ==
    /\ \E r \in 1 .. Len(last_scored) :
          /\ \A c \in 1 .. cfg.graph.n : last_scored[r].mask[c] = 1
          /\ last_scored[r].cut_size = 0
    /\ \E r \in 1 .. Len(last_scored) :
          /\ CutEdges(cfg.graph, last_scored[r].mask) = {}
          /\ last_scored[r].traffic_across_cut > 0

\* C5: calculate_congestion returns 0 for every mask in which some node has no
\* neighbour on its own side once the cutset edges are removed, even when
\* traffic_crossing / cut_size is positive, and the raw congestion when every
\* node of both sides keeps a same-side neighbour.
C5_ConnectivityGate ==
    \A r \in 1 .. Len(last_scored) :
        IF KeepsSameSideNeighbour(cfg.graph, last_scored[r].mask)
        THEN last_scored[r].congestion = last_scored[r].raw
        ELSE last_scored[r].congestion = Zero

C5_Witness ==
    /\ \E r \in 1 .. Len(last_scored) :
          /\ ~KeepsSameSideNeighbour(cfg.graph, last_scored[r].mask)
          /\ FracLess(Zero, last_scored[r].raw)
          /\ last_scored[r].congestion = Zero
    /\ \E r \in 1 .. Len(last_scored) :
          /\ KeepsSameSideNeighbour(cfg.graph, last_scored[r].mask)
          /\ FracLess(Zero, last_scored[r].congestion)

\* C6: find_cutset_edges(p1, 1 - p1, source_nodes, dest_nodes) marks edge k of
\* the sorted edge list with 1 iff exactly one endpoint of that edge is in p1,
\* whichever way the edge is oriented, and every other edge with 0.
C6_CutsetEdgesExactlyOneEndpoint ==
    \A r \in 1 .. Len(last_scored) :
        /\ Len(last_scored[r].edges) = Len(cfg.graph.edges)
        /\ \A k \in 1 .. Len(cfg.graph.edges) :
              last_scored[r].edges[k] =
                  IF k \in CutEdges(cfg.graph, last_scored[r].mask) THEN 1 ELSE 0

Candidates == Flatten(heavy_cut_sets)

\* The first candidate, in flattened order, with the cutset row of candidate i.
FirstWithRow(i) ==
    CHOOSE f \in 1 .. Len(post.cutset_edges) :
        /\ post.cutset_edges[f] = post.cutset_edges[i]
        /\ \A h \in 1 .. (f - 1) : post.cutset_edges[h] # post.cutset_edges[i]

\* C7: after deduplication no two retained candidates have the same cutset-edge
\* row, every distinct row among the candidates is retained exactly once, and
\* the retained candidate for a row is the first one in flattened order, with
\* its own congestion and partitions.
C7_DedupKeepsFirst ==
    pc = "done" =>
        /\ Len(post.cutset_edges) = Len(Candidates)
        /\ \A u, v \in 1 .. Len(post.unique) :
              u # v => post.unique[u].cutset_edges # post.unique[v].cutset_edges
        /\ \A i \in 1 .. Len(Candidates) :
              \E u \in 1 .. Len(post.unique) :
                 /\ post.unique[u].cutset_edges = post.cutset_edges[i]
                 /\ post.unique[u].congestion = Candidates[FirstWithRow(i)].congestion
                 /\ post.unique[u].partition1 = Candidates[FirstWithRow(i)].partition1
                 /\ post.unique[u].partition2 = Candidates[FirstWithRow(i)].partition2
        /\ \A u \in 1 .. Len(post.unique) :
              \E i \in 1 .. Len(Candidates) :
                 post.unique[u].cutset_edges = post.cutset_edges[i]

C7_Witness ==
    /\ pc = "done"
    /\ \E i, j \in 1 .. Len(Candidates) :
          /\ i < j
          /\ post.cutset_edges[i] = post.cutset_edges[j]
          /\ Candidates[i].partition1 # Candidates[j].partition1
          /\ Candidates[i].congestion # Candidates[j].congestion
    /\ Len(post.unique) < Len(Candidates)

\* The congestion calculate_congestion gives a mask under the run's inputs.
Score(mask) ==
    calculate_congestion(mask, cfg.adj_matrix, cfg.traffic_matrix,
                         cfg.source_nodes, cfg.destination_nodes)

\* C8: the printed result set is the top_k distinct cutsets of highest
\* congestion among the scored bipartitions: it has min(top_k, number of
\* distinct scored cutsets) entries, and no scored cutset left out has, under
\* any of its scored partitions, a congestion higher than an entry of the set.
C8_ResultIsTopKDistinctCutsets ==
    pc = "done" =>
        \A cuts \in {{CutEdges(cfg.graph, m) : m \in scored}} :
        \A kept \in {{CutEdges(cfg.graph, post.result[t].partition1) :
                         t \in 1 .. Len(post.result)}} :
            /\ Len(post.result) = Min2(cfg.CUTSET_TOP_K, Cardinality(cuts))
            /\ \A m \in scored :
                  CutEdges(cfg.graph, m) \notin kept
                  => \A t \in 1 .. Len(post.result) :
                        ~FracLess(post.result[t].congestion, Score(m))

(***************************************************************************)
(* TrainState (train_utils.py).  A parameter tree is a function from leaf  *)
(* names to integers; a tree with an overwrite-with-gradient collection    *)
(* has the two subtrees "params" and OVERWRITE_WITH_GRADIENT.               *)
(***************************************************************************)
OVERWRITE_WITH_GRADIENT == "_overwrite_with_gradient"

EmptyTree == [l \in {} |-> 0]

PlainLeaves == {"w", "b"}

OwgLeaves == {"scale"}

\* The params handed to TrainState.create.
ParamTrees ==
    { [l \in PlainLeaves |-> 0],
      [k \in {"params", OVERWRITE_WITH_GRADIENT} |->
          IF k = "params" THEN [l \in PlainLeaves |-> 0]
          ELSE [l \in OwgLeaves |-> 1]] }

HasOwg(tree) == OVERWRITE_WITH_GRADIENT \in DOMAIN tree

\* The gradient trees of the structure of params.
GradTrees(params) ==
    IF HasOwg(params)
    THEN { [k \in {"params", OVERWRITE_WITH_GRADIENT} |->
              IF k = "params" THEN gp ELSE go] :
           gp \in [PlainLeaves -> 0 .. MaxGrad], go \in [OwgLeaves -> 0 .. MaxGrad] }
    ELSE [PlainLeaves -> 0 .. MaxGrad]

\* The optimizers handed to create: plain gradient descent, which keeps no
\* state, and gradient descent with a momentum trace.
Optimizers == {"sgd", "momentum"}

\* tx.init(params_with_opt)
tx_init(tx, params_with_opt) ==
    IF tx = "momentum"
    THEN [trace |-> [l \in DOMAIN params_with_opt |-> 0]]
    ELSE [trace |-> EmptyTree]

\* tx.update(grads_with_opt, opt_state, params_with_opt)
tx_update(tx, grads_with_opt, opt_state, params_with_opt) ==
    IF tx = "momentum"
    THEN [updates |-> [l \in DOMAIN grads_with_opt |->
                          0 - (grads_with_opt[l] + opt_state.trace[l])],
          new_opt_state |-> [trace |-> [l \in DOMAIN grads_with_opt |->
                                          grads_with_opt[l] + opt_state.trace[l]]]]
    ELSE [updates |-> [l \in DOMAIN grads_with_opt |-> 0 - grads_with_opt[l]],
          new_opt_state |-> opt_state]

\* optax.apply_updates(params_with_opt, updates)
apply_updates(params_with_opt, updates) ==
    [l \in DOMAIN params_with_opt |-> params_with_opt[l] + updates[l]]

grads_with_opt_of(grads) == IF HasOwg(grads) THEN grads["params"] ELSE grads

params_with_opt_of(params, grads) ==
    IF HasOwg(grads) THEN params["params"] ELSE params

\* A step that is carried over unchanged.
step_kept(self) == self.step

\* step=self.step + 1
next_step(self) == self.step + 1

\* An overwrite collection that keeps its old value.
owg_kept(self, grads) == self.params[OVERWRITE_WITH_GRADIENT]

\* OVERWRITE_WITH_GRADIENT: grads[OVERWRITE_WITH_GRADIENT]
owg_value(self, grads) == grads[OVERWRITE_WITH_GRADIENT]

\* new_params of apply_gradients, from new_params_with_opt.
new_params_of(self, grads, new_params_with_opt) ==
    IF HasOwg(grads)
    THEN [k \in {"params", OVERWRITE_WITH_GRADIENT} |->
             IF k = "params" THEN new_params_with_opt ELSE owg_value(self, grads)]
    ELSE new_params_with_opt

\* self.replace(step=..., params=..., opt_state=..., **kwargs)
\* A replace that drops the extra keyword fields.
replace_without_kwargs(self, step, params, opt_state, kwargs) ==
    [step |-> step, apply_fn |-> self.apply_fn, params |-> params, tx |-> self.tx,
     opt_state |-> opt_state]

\* The instance apply_gradients was called on, after the call: no statement
\* of apply_gradients assigns to self, and replace builds a new instance.
self_after_call(self) == self

replace(self, step, params, opt_state, kwargs) ==
    [step |-> step,
     apply_fn |-> IF "apply_fn" \in DOMAIN kwargs THEN kwargs["apply_fn"]
                  ELSE self.apply_fn,
     params |-> params,
     tx |-> IF "tx" \in DOMAIN kwargs THEN kwargs["tx"] ELSE self.tx,
     opt_state |-> opt_state]

\* TrainState.apply_gradients(self, grads=grads, **kwargs): the new instance.
apply_gradients(self, grads, kwargs) ==
    LET done(out) ==
            replace(self, next_step(self),
                    new_params_of(self, grads,
                                  apply_updates(params_with_opt_of(self.params, grads),
                                                out.updates)),
                    out.new_opt_state, kwargs)
    IN done(tx_update(self.tx, grads_with_opt_of(grads), self.opt_state,
                      params_with_opt_of(self.params, grads)))

\* TrainState.create(apply_fn=apply_fn, params=params, tx=tx)
create(apply_fn, params, tx) ==
    [step |-> 0,
     apply_fn |-> apply_fn,
     params |-> params,
     tx |-> tx,
     opt_state |-> tx_init(tx, IF HasOwg(params) THEN params["params"] ELSE params)]

\* The extra keyword fields handed to apply_gradients.
KwargsChoices ==
    {EmptyTree, [f \in {"apply_fn"} |-> "other_apply"], [f \in {"tx"} |-> "sgd"],
     [f \in {"apply_fn", "tx"} |-> IF f = "tx" THEN "sgd" ELSE "other_apply"]}

InitTrain ==
    /\ cfg = <<>>
    /\ pc = "train"
    /\ proc = 0
    /\ iter = 0
    /\ batch = 0
    /\ batch_results = <<>>
    /\ heavy_cut_sets = <<>>
    /\ last_scored = <<>>
    /\ scored = {}
    /\ post = NoPost
    /\ train_state = NoTrainState
    /\ last_call = NoCall
    /\ UtilIdle

Create ==
    /\ pc = "train"
    /\ last_call.op = "none"
    /\ \E params \in ParamTrees, tx \in Optimizers :
          /\ train_state' = create("apply", params, tx)
          /\ last_call' = [op |-> "create", calls |-> 0, params |-> params, tx |-> tx]
    /\ UNCHANGED <<est_vars, util_vars>>

ApplyGradients ==
    /\ pc = "train"
    /\ last_call.op # "none"
    /\ train_state.step < MaxSteps
    /\ \E grads \in GradTrees(train_state.params), kwargs \in KwargsChoices :
          /\ train_state' = apply_gradients(train_state, grads, kwargs)
          /\ last_call' =
                 [op |-> "apply_gradients",
                  calls |-> last_call.calls + 1,
                  self |-> train_state,
                  self_after |-> self_after_call(train_state),
                  grads |-> grads,
                  kwargs |-> kwargs,
                  grads_with_opt |-> grads_with_opt_of(grads),
                  updates |-> tx_update(train_state.tx, grads_with_opt_of(grads),
                                        train_state.opt_state,
                                        params_with_opt_of(train_state.params,
                                                           grads)).updates]
    /\ UNCHANGED <<est_vars, util_vars>>

NextTrain == Create \/ ApplyGradients

SpecTrain == InitTrain /\ [][NextTrain]_vars

\* Every leaf of a gradient tree, or of an updates tree, is zero.
AllZero(tree) ==
    IF HasOwg(tree)
    THEN /\ \A l \in DOMAIN tree["params"] : tree["params"][l] = 0
         /\ \A l \in DOMAIN tree[OVERWRITE_WITH_GRADIENT] :
               tree[OVERWRITE_WITH_GRADIENT][l] = 0
    ELSE \A l \in DOMAIN tree : tree[l] = 0

Applied == last_call.op = "apply_gradients"

\* C9 as stated: create yields step 0, every apply_gradients call returns step
\* one greater, so that after N calls the step is N; with an all-zero gradient
\* tree and a zero optimizer update, params are unchanged by the call.
C9_StepCountsCallsZeroGradKeepsParams ==
    /\ last_call.op = "create" => train_state.step = 0
    /\ Applied =>
          /\ train_state.step = last_call.self.step + 1
          /\ train_state.step = last_call.calls
          /\ (AllZero(last_call.grads) /\ AllZero(last_call.updates))
             => train_state.params = last_call.self.params

\* C9 amended: the step counts the calls as stated; with an all-zero gradient
\* tree and a zero optimizer update, params are unchanged when the tree has no
\* overwrite-with-gradient subtree, and otherwise the "params" subtree is
\* unchanged while the overwrite subtree becomes the all-zero gradient.
C9_StepCountsCallsZeroGradKeepsOptimizedParams ==
    /\ last_call.op = "create" => train_state.step = 0
    /\ Applied =>
          /\ train_state.step = last_call.self.step + 1
          /\ train_state.step = last_call.calls
          /\ (AllZero(last_call.grads) /\ AllZero(last_call.updates))
             => IF HasOwg(last_call.grads)
                THEN /\ train_state.params["params"] = last_call.self.params["params"]
                     /\ train_state.params[OVERWRITE_WITH_GRADIENT] =
                            last_call.grads[OVERWRITE_WITH_GRADIENT]
                ELSE train_state.params = last_call.self.params

C9_Witness ==
    /\ Applied
    /\ last_call.calls >= 2
    /\ train_state.step = last_call.calls
    /\ AllZero(last_call.grads)
    /\ AllZero(last_call.updates)
    /\ HasOwg(last_call.grads)
    /\ train_state.params["params"]["w"] # 0
    /\ train_state.params["params"] = last_call.self.params["params"]

\* C10: with an overwrite-with-gradient subtree in the gradients,
\* apply_gradients sets that subtree of the new params to the raw gradient, the
\* optimizer is given and updates the "params" subtree only, and the opt_state
\* made by create and carried by apply_gradients covers that subtree only.
C10_OverwriteWithGradientBypassesOptimizer ==
    /\ (Applied /\ HasOwg(last_call.grads)) =>
          /\ train_state.params[OVERWRITE_WITH_GRADIENT] =
                 last_call.grads[OVERWRITE_WITH_GRADIENT]
          /\ last_call.grads_with_opt = last_call.grads["params"]
          /\ DOMAIN last_call.updates = DOMAIN last_call.self.params["params"]
          /\ train_state.params["params"] =
                 [l \in DOMAIN last_call.self.params["params"] |->
                     last_call.self.params["params"][l] + last_call.updates[l]]
    /\ (last_call.op # "none" /\ HasOwg(train_state.params)) =>
          /\ DOMAIN train_state.opt_state.trace \subseteq
                 DOMAIN train_state.params["params"]
          /\ \A l \in DOMAIN train_state.params[OVERWRITE_WITH_GRADIENT] :
                l \notin DOMAIN train_state.opt_state.trace

C10_Witness ==
    /\ Applied
    /\ HasOwg(last_call.grads)
    /\ last_call.calls >= 2
    /\ train_state.tx = "momentum"
    /\ last_call.grads[OVERWRITE_WITH_GRADIENT]["scale"] #
           last_call.self.params[OVERWRITE_WITH_GRADIENT]["scale"]
    /\ train_state.params["params"] # last_call.self.params["params"]
    /\ DOMAIN train_state.opt_state.trace = DOMAIN train_state.params["params"]

(***************************************************************************)
(* The training utilities of train_utils.py.  Each utility is a function   *)
(* the training loop calls; a call is recorded, with its arguments and its *)
(* outcome, in the variable call.  While the utilities run, the estimator  *)
(* and the TrainState container stay idle.                                 *)
(***************************************************************************)
EstIdle ==
    /\ cfg = <<>>
    /\ pc = "idle"
    /\ proc = 0
    /\ iter = 0
    /\ batch = 0
    /\ batch_results = <<>>
    /\ heavy_cut_sets = <<>>
    /\ last_scored = <<>>
    /\ scored = {}
    /\ post = NoPost

TrainIdle ==
    /\ train_state = NoTrainState
    /\ last_call = NoCall

(***************************************************************************)
(* save_model(train_state, run_name, flags)                                *)
(***************************************************************************)
MaxSaves == 3       \* save_model is called at most MaxSaves times

\* The values of flags.MODEL_PATH ("" is the unset flag) and of run_name.
ModelPaths == {"", "ckpt"}

RunNames == {"run", "run_1"}

\* The paths that may exist before the first save.
InitialPaths == {"models/run", "models/run_1", "models/run_2", "ckpt", "ckpt_1"}

\* A test that finds no path.
exists_never(path, files) == FALSE

\* model_path.exists()
exists(path, files) == path \in files

\* The path with the index appended: str(model_path_og) + f"_{i}", or
\* model_path_og.parent / (model_path_og.name + f"_{i}").
indexed_path(MODEL_PATH, run_name, i) ==
    IF MODEL_PATH # "" THEN MODEL_PATH \o ("_" \o ToString(i))
    ELSE "models" \o "/" \o (run_name \o ("_" \o ToString(i)))

\* model_path before the loop.
model_path_og_of(MODEL_PATH, run_name) ==
    IF MODEL_PATH # "" THEN MODEL_PATH ELSE "models" \o "/" \o run_name

\* The while loop of save_model, entered with model_path and i: the values
\* of model_path and i when it ends.
RECURSIVE save_loop(_, _, _, _, _)
save_loop(model_path, i, MODEL_PATH, run_name, files) ==
    IF exists(model_path, files)
    THEN save_loop(indexed_path(MODEL_PATH, run_name, i), i + 1,
                   MODEL_PATH, run_name, files)
    ELSE [model_path |-> model_path, i |-> i]

InitSave ==
    /\ EstIdle
    /\ TrainIdle
    /\ call = Idle
    /\ warmup = NoWarmup
    /\ fs \in SUBSET InitialPaths

\* One call of save_model; the checkpointer creates the target directory.
SaveModel ==
    /\ pc = "idle"
    /\ call.fn \in {"none", "save_model"}
    /\ (call.fn = "save_model" => Len(call.targets) < MaxSaves)
    /\ \E MODEL_PATH \in ModelPaths, run_name \in RunNames :
       \E out \in {save_loop(model_path_og_of(MODEL_PATH, run_name), 1,
                             MODEL_PATH, run_name, fs)} :
          /\ call' = [fn |-> "save_model",
                      MODEL_PATH |-> MODEL_PATH,
                      run_name |-> run_name,
                      model_path_og |-> model_path_og_of(MODEL_PATH, run_name),
                      model_path |-> out.model_path,
                      i |-> out.i,
                      existed |-> fs,
                      targets |-> (IF call.fn = "save_model" THEN call.targets
                                   ELSE <<>>) \o <<out.model_path>>]
          /\ fs' = fs \cup {out.model_path}
    /\ UNCHANGED <<est_vars, train_vars, warmup>>

NextSave == SaveModel

SpecSave == InitSave /\ [][NextSave]_vars

\* base + "_j" as the claim names it.
Suffixed(base, j) == base \o "_" \o ToString(j)

\* C11: save_model saves to the base target directory when it does not exist,
\* and otherwise to base + "_i" for the smallest i >= 1 whose name does not
\* exist; no directory that already exists is ever chosen, so every call of a
\* sequence writes to a distinct directory.
C11_SaveNeverOverwrites ==
    call.fn = "save_model" =>
        /\ call.model_path \notin call.existed
        /\ (call.model_path_og \notin call.existed
               => call.model_path = call.model_path_og)
        /\ (call.model_path_og \in call.existed
               => \E i \in 1 .. (Cardinality(call.existed) + 1) :
                     /\ call.model_path = Suffixed(call.model_path_og, i)
                     /\ \A j \in 1 .. (i - 1) :
                           Suffixed(call.model_path_og, j) \in call.existed)
        /\ \A a, b \in 1 .. Len(call.targets) :
              a # b => call.targets[a] # call.targets[b]

\* The next save for run_name "run" resolves to "models/run_2" when
\* "models/run" and "models/run_1" exist.
C11_Witness ==
    /\ call.fn = "save_model"
    /\ call.run_name = "run"
    /\ call.MODEL_PATH = ""
    /\ {"models/run", "models/run_1"} \subseteq call.existed
    /\ call.model_path = "models/run_2"
    /\ Len(call.targets) >= 2

(***************************************************************************)
(* Strings whose letters matter (env_type) are sequences of one-letter     *)
(* strings, so that str.lower() is computed letter by letter.              *)
(***************************************************************************)
lower_letter(c) ==
    CASE c = "A" -> "a" [] c = "D" -> "d" [] c = "E" -> "e" [] c = "G" -> "g"
      [] c = "H" -> "h" [] c = "I" -> "i" [] c = "L" -> "l" [] c = "M" -> "m"
      [] c = "N" -> "n" [] c = "O" -> "o" [] c = "P" -> "p" [] c = "R" -> "r"
      [] c = "S" -> "s" [] c = "T" -> "t" [] c = "U" -> "u" [] c = "V" -> "v"
      [] c = "W" -> "w" [] OTHER -> c

\* A string handed on as it is.
same_letters(str) == str

\* str.lower()
lower(str) == [k \in 1 .. Len(str) |-> lower_letter(str[k])] \o <<>>

vone == <<"v", "o", "n", "e">>

rsa == <<"r", "s", "a">>

rmsa == <<"r", "m", "s", "a">>

rwa == <<"r", "w", "a">>

deeprmsa == <<"d", "e", "e", "p">> \o rmsa

rwa_lightpath_reuse ==
    rwa \o <<"_", "l", "i", "g", "h", "t", "p", "a", "t", "h", "_",
             "r", "e", "u", "s", "e">>

\* ["rsa", "rmsa", "rwa", "deeprmsa", "rwa_lightpath_reuse"]
rsa_family == {rsa, rmsa, rwa, deeprmsa, rwa_lightpath_reuse}

(***************************************************************************)
(* select_action(select_action_state, env, env_params, train_state, config)*)
(* for one environment.  A categorical distribution is the row of its      *)
(* logits, a function on the actions 0..MaxAction.                         *)
(***************************************************************************)
MaxAction == 1      \* every head has the actions 0..MaxAction
MaxLogit == 1       \* the network's logits range over 0..MaxLogit

Actions == 0 .. MaxAction

LogitRows == [Actions -> 0 .. MaxLogit]

MaskRows == [Actions -> BOOLEAN]

\* Logits that are handed on as they are.
where_unmasked(mask, logits) == logits

\* jnp.where(mask, logits, -1e8)
where(mask, logits) ==
    [a \in Actions |-> IF mask[a] THEN logits[a] ELSE 0 - 100000000]

MaxLogitOf(logits) ==
    CHOOSE m \in {logits[a] : a \in Actions} : \A a \in Actions : logits[a] <= m

\* distrax.Categorical.mode(): the first action of the largest logit.
mode(logits) ==
    CHOOSE a \in Actions :
        /\ logits[a] = MaxLogitOf(logits)
        /\ \A b \in Actions : logits[b] = MaxLogitOf(logits) => a <= b

\* distrax.Categorical.sample(): the actions a draw can return.  An action
\* whose logit lies 1e8 below the largest one has probability 0 in floats.
sample(logits) == {a \in Actions : logits[a] + 100 > MaxLogitOf(logits)}

\* distrax.Categorical.log_prob(action), kept as the term it stands for.
log_prob_of(logits, action) == [logits |-> logits, action |-> action]

\* dist.sample(seed=...) if not config.deterministic else dist.mode()
draw(logits, deterministic) ==
    IF deterministic THEN {mode(logits)} ELSE sample(logits)

\* The environment handed to select_action: the masks its mask functions
\* compute.  src_ok is the source-node mask, dest_rule and slot_rule say how
\* the destination mask and the slot mask follow from the action chosen so
\* far, slot_ok is the slot mask of a single-action environment.
VoneEnvs ==
    [src_ok : MaskRows, dest_rule : {"other", "all"},
     slot_rule : {"parity", "all", "none"}, slot_ok : {[a \in Actions |-> TRUE]}]

RsaEnvs ==
    [src_ok : {[a \in Actions |-> TRUE]}, dest_rule : {"all"},
     slot_rule : {"all"}, slot_ok : MaskRows]

\* env_state.env_state as select_action receives it: the masks are those of
\* an earlier step.
StaleState ==
    [node_mask_s |-> [a \in Actions |-> TRUE],
     node_mask_d |-> [a \in Actions |-> TRUE],
     link_slot_mask |-> [a \in Actions |-> TRUE]]

\* env.action_mask_nodes(state, params)
action_mask_nodes(state, env) == [state EXCEPT !.node_mask_s = env.src_ok]

\* env.action_mask_dest_node(state, params, action_s)
action_mask_dest_node(state, env, action_s) ==
    [state EXCEPT !.node_mask_d =
        [d \in Actions |-> IF env.dest_rule = "other" THEN d # action_s ELSE TRUE]]

\* env.action_mask_slots(state, params, action)
action_mask_slots(state, env, action) ==
    [state EXCEPT !.link_slot_mask =
        [p \in Actions |->
            CASE env.slot_rule = "parity" ->
                    (p + action[1] + action[2] + action[3]) % 2 = 0
              [] env.slot_rule = "all" -> TRUE
              [] OTHER -> FALSE]]

\* env.action_mask(state, params)
action_mask(state, env) == [state EXCEPT !.link_slot_mask = env.slot_ok]

\* The heads returned by train_state.apply_fn: source, path, destination for
\* VONE, one head otherwise.
Reversed(row) == [a \in Actions |-> row[MaxAction - a]]

VoneHeads == {<<r, Reversed(r), r>> : r \in LogitRows}

RsaHeads == {<<r>> : r \in LogitRows}

SelectConfigs ==
    [env_type : {vone, <<"V", "O", "N", "E">>, rsa, <<"R", "M", "S", "A">>},
     ACTION_MASKING : BOOLEAN, deterministic : BOOLEAN]

\* The VONE branch of select_action: the calls it can end in.
select_action_vone(config, pi, env) ==
    LET s1 == action_mask_nodes(StaleState, env)
        s2(action_s) == action_mask_dest_node(s1, env, action_s)
        s3(action_s, action_d) ==
            action_mask_slots(s2(action_s), env, <<action_s, 0, action_d>>)
        pi_source == where(s1.node_mask_s, pi[1])
        pi_dest(action_s) == where(s2(action_s).node_mask_d, pi[3])
        pi_path(action_s, action_d) ==
            where(s3(action_s, action_d).link_slot_mask, pi[2])
        result(action_s, action_p, action_d) ==
            [fn |-> "select_action", config |-> config, pi |-> pi, env |-> env,
             node_mask_s |-> s3(action_s, action_d).node_mask_s,
             node_mask_d |-> s3(action_s, action_d).node_mask_d,
             link_slot_mask |-> s3(action_s, action_d).link_slot_mask,
             action |-> <<action_s, action_p, action_d>>,
             log_prob |-> <<log_prob_of(pi_dest(action_s), action_d),
                            log_prob_of(pi_path(action_s, action_d), action_p),
                            log_prob_of(pi_source, action_s)>>]
    IN { result(t[1], t[2], t[3]) :
         t \in { u \in Actions \X Actions \X Actions :
                   /\ u[1] \in draw(pi_source, config.deterministic)
                   /\ u[3] \in draw(pi_dest(u[1]), config.deterministic)
                   /\ u[2] \in draw(pi_path(u[1], u[3]), config.deterministic) } }

\* The ACTION_MASKING branch.
select_action_masked(config, pi, env) ==
    { [fn |-> "select_action", config |-> config, pi |-> pi, env |-> env,
       link_slot_mask |-> action_mask(StaleState, env).link_slot_mask,
       action |-> action,
       log_prob |-> <<log_prob_of(where(action_mask(StaleState, env).link_slot_mask,
                                        pi[1]), action)>>] :
      action \in IF ~config.deterministic
                 THEN sample(where(action_mask(StaleState, env).link_slot_mask, pi[1]))
                 ELSE {mode(pi[1])} }

\* The branch without masking.
select_action_plain(config, pi, env) ==
    { [fn |-> "select_action", config |-> config, pi |-> pi, env |-> env,
       action |-> action, log_prob |-> <<log_prob_of(pi[1], action)>>] :
      action \in draw(pi[1], config.deterministic) }

\* select_action: the calls it can end in (the draws differ).
select_action(config, pi, env) ==
    IF lower(config.env_type) = vone THEN select_action_vone(config, pi, env)
    ELSE IF config.ACTION_MASKING THEN select_action_masked(config, pi, env)
    ELSE select_action_plain(config, pi, env)

InitSelect ==
    /\ EstIdle
    /\ TrainIdle
    /\ UtilIdle

SelectAction ==
    /\ pc = "idle"
    /\ call = Idle
    /\ \E config \in SelectConfigs :
       \E pi \in IF lower(config.env_type) = vone THEN VoneHeads ELSE RsaHeads :
       \E env \in IF lower(config.env_type) = vone THEN VoneEnvs ELSE RsaEnvs :
          call' \in select_action(config, pi, env)
    /\ UNCHANGED <<est_vars, train_vars, fs, warmup>>

NextSelect == SelectAction

SpecSelect == InitSelect /\ [][NextSelect]_vars

\* Action a is the choice of a head with these logits under this mask: a valid
\* action whenever one exists, and in deterministic mode the first action of
\* the largest logit among the valid ones (the first action of all when none
\* is valid).
AnyValid(mask) == \E x \in Actions : mask[x]

ChosenUnderMask(mask, logits, a, deterministic) ==
    /\ AnyValid(mask) => mask[a]
    /\ (deterministic /\ AnyValid(mask)) =>
          \A b \in Actions :
              mask[b] => /\ logits[b] <= logits[a]
                         /\ (logits[b] = logits[a] => a <= b)
    /\ (deterministic /\ ~AnyValid(mask)) => a = 0

\* The log-probability of action a under the head masked with mask.
MaskedLogProb(mask, logits, a) ==
    [logits |-> [x \in Actions |-> IF mask[x] THEN logits[x] ELSE 0 - 100000000],
     action |-> a]

\* C12: for a non-VONE environment with ACTION_MASKING set, select_action
\* takes the action from the masked distribution in both modes (a sample, or
\* the mode of the masked distribution when deterministic), so the returned
\* action is a valid one whenever some action is valid under the slot mask.
C12_MaskedActionIsValid ==
    (/\ call.fn = "select_action"
     /\ lower(call.config.env_type) # vone
     /\ call.config.ACTION_MASKING)
    => ChosenUnderMask(call.env.slot_ok, call.pi[1], call.action,
                       call.config.deterministic)

\* The masks the environment computes from the returned action.
DestMaskFor(env, s) ==
    [x \in Actions |-> IF env.dest_rule = "other" THEN x # s ELSE TRUE]

SlotMaskFor(env, s, p, d) ==
    [x \in Actions |->
        CASE env.slot_rule = "parity" -> (x + s + p + d) % 2 = 0
          [] env.slot_rule = "all" -> TRUE
          [] OTHER -> FALSE]

\* C13: for env_type "vone" select_action masks whatever ACTION_MASKING says:
\* the source comes from the source-masked head, the destination from the head
\* masked with the destination mask of the chosen source, the path from the
\* head masked with the slot mask of (source, 0, destination); it returns
\* (source, path, destination) and the sum of the three masked heads'
\* log-probabilities of their chosen components.
C13_VoneMaskedInOrder ==
    (call.fn = "select_action" /\ lower(call.config.env_type) = vone)
    => LET source == call.action[1]
           path == call.action[2]
           destination == call.action[3]
           det == call.config.deterministic
       IN /\ Len(call.action) = 3
          /\ call.node_mask_s = call.env.src_ok
          /\ call.node_mask_d = DestMaskFor(call.env, source)
          /\ call.link_slot_mask = SlotMaskFor(call.env, source, 0, destination)
          /\ ChosenUnderMask(call.node_mask_s, call.pi[1], source, det)
          /\ ChosenUnderMask(call.node_mask_d, call.pi[3], destination, det)
          /\ ChosenUnderMask(call.link_slot_mask, call.pi[2], path, det)
          /\ Len(call.log_prob) = 3
          /\ \E f \in [1 .. 3 -> 1 .. 3] :
                /\ \A x, y \in 1 .. 3 : x # y => f[x] # f[y]
                /\ call.log_prob[f[1]] =
                      MaskedLogProb(call.node_mask_s, call.pi[1], source)
                /\ call.log_prob[f[2]] =
                      MaskedLogProb(call.link_slot_mask, call.pi[2], path)
                /\ call.log_prob[f[3]] =
                      MaskedLogProb(call.node_mask_d, call.pi[3], destination)

\* A deterministic VONE call without ACTION_MASKING in which the largest
\* source logit belongs to a masked node, the destination mask excludes the
\* chosen source and the slot mask depends on the chosen pair.
C13_Witness ==
    /\ call.fn = "select_action"
    /\ call.config.env_type = <<"V", "O", "N", "E">>
    /\ ~call.config.ACTION_MASKING
    /\ call.config.deterministic
    /\ ~call.env.src_ok[0]
    /\ call.pi[1][0] > call.pi[1][1]
    /\ call.env.dest_rule = "other"
    /\ call.env.slot_rule = "parity"
    /\ call.action = <<1, 1, 0>>

(***************************************************************************)
(* define_env(config) and init_network(config, env, env_state, env_params) *)
(***************************************************************************)
MaxCaseLetters == 4     \* letter case varies over the first MaxCaseLetters letters

upper_letter(c) ==
    CASE c = "a" -> "A" [] c = "d" -> "D" [] c = "e" -> "E" [] c = "g" -> "G"
      [] c = "h" -> "H" [] c = "i" -> "I" [] c = "l" -> "L" [] c = "m" -> "M"
      [] c = "n" -> "N" [] c = "o" -> "O" [] c = "p" -> "P" [] c = "r" -> "R"
      [] c = "s" -> "S" [] c = "t" -> "T" [] c = "u" -> "U" [] c = "v" -> "V"
      [] c = "w" -> "W" [] OTHER -> c

\* The name with some of its first MaxCaseLetters letters, or all its
\* letters, in upper case.
CaseVariants(name) ==
    { [k \in 1 .. Len(name) |-> IF k \in up THEN upper_letter(name[k]) ELSE name[k]]
          \o <<>> :
      up \in SUBSET (1 .. Min2(Len(name), MaxCaseLetters)) \cup {1 .. Len(name)} }

\* Values of env_type that name no environment.
OtherEnvTypes ==
    { <<>>, <<"v", "o", "n">>, vone \o <<"s">>, <<" ">> \o vone, rsa \o <<" ">>,
      <<"r", "s">>, <<"V", "0", "N", "E">>, <<"d", "e", "e", "p">>,
      <<"D", "E", "E", "P", "_">> \o rmsa, <<"g", "y", "m">>,
      <<"R", "W", "A", "_">>, <<"r", "w", "a", "_", "l", "i", "g", "h", "t",
                                "p", "a", "t", "h">> }

EnvTypes ==
    UNION {CaseVariants(name) : name \in {vone} \cup rsa_family} \cup OtherEnvTypes

\* define_env: the outcome of the call.
define_env(config) ==
    IF lower(config.env_type) = vone
    THEN [fn |-> "define_env", config |-> config, raised |-> "none",
          made |-> "make_vone_env", wrapped |-> TRUE,
          env |-> "LogWrapper(vone)"]
    ELSE IF lower(config.env_type) \in rsa_family
    THEN [fn |-> "define_env", config |-> config, raised |-> "none",
          made |-> "make_rsa_env", wrapped |-> TRUE,
          env |-> "LogWrapper(rsa)"]
    ELSE [fn |-> "define_env", config |-> config, raised |-> "ValueError",
          made |-> "none", wrapped |-> FALSE, env |-> "none"]

\* init_network: the outcome of the call.
init_network(config) ==
    IF lower(config.env_type) = vone
    THEN [fn |-> "init_network", config |-> config, raised |-> "none",
          network |-> "ActorCriticMLP", heads |-> "action_space.spaces",
          init_x |-> "zeros(observation_space.n)"]
    ELSE IF lower(config.env_type) \in rsa_family
    THEN IF config.USE_GNN
         THEN [fn |-> "init_network", config |-> config, raised |-> "none",
               network |-> "ActorCriticGNN", heads |-> "edges",
               init_x |-> "(env_state.env_state, env_params)"]
         ELSE [fn |-> "init_network", config |-> config, raised |-> "none",
               network |-> "ActorCriticMLP", heads |-> "action_space.n",
               init_x |-> "zeros(observation_space.n)"]
    ELSE [fn |-> "init_network", config |-> config, raised |-> "ValueError",
          network |-> "none", heads |-> "none", init_x |-> "none"]

InitEnv ==
    /\ EstIdle
    /\ TrainIdle
    /\ UtilIdle

DefineEnv ==
    /\ pc = "idle"
    /\ call = Idle
    /\ \E env_type \in EnvTypes :
          call' = define_env([env_type |-> env_type])
    /\ UNCHANGED <<est_vars, train_vars, fs, warmup>>

InitNetwork ==
    /\ pc = "idle"
    /\ call = Idle
    /\ \E env_type \in EnvTypes, USE_GNN \in BOOLEAN :
          call' = init_network([env_type |-> env_type, USE_GNN |-> USE_GNN])
    /\ UNCHANGED <<est_vars, train_vars, fs, warmup>>

NextEnv == DefineEnv \/ InitNetwork

SpecEnv == InitEnv /\ [][NextEnv]_vars

\* The string is the name in some letter case.
InAnyCase(str, name) ==
    /\ Len(str) = Len(name)
    /\ \A k \in 1 .. Len(name) :
          str[k] = name[k] \/ str[k] = upper_letter(name[k])

\* C14: define_env and init_network dispatch on env_type case-insensitively:
\* "vone" in any letter case selects the VONE builder, each name of the RSA
\* family in any letter case selects the RSA-family builder, and every other
\* value raises ValueError with no environment built or wrapped and no network
\* returned.
C14_EnvTypeDispatch ==
    call.fn \in {"define_env", "init_network"} =>
        LET env_type == call.config.env_type
            is_vone == InAnyCase(env_type, vone)
            is_rsa == \E name \in rsa_family : InAnyCase(env_type, name)
        IN /\ call.raised = (IF is_vone \/ is_rsa THEN "none" ELSE "ValueError")
           /\ call.fn = "define_env" =>
                 /\ call.made = (IF is_vone THEN "make_vone_env"
                                 ELSE IF is_rsa THEN "make_rsa_env" ELSE "none")
                 /\ call.wrapped = (is_vone \/ is_rsa)
                 /\ (call.env = "none") = ~(is_vone \/ is_rsa)
           /\ call.fn = "init_network" =>
                 /\ (call.network = "none") = ~(is_vone \/ is_rsa)
                 /\ is_vone => call.network = "ActorCriticMLP"
                 /\ is_rsa => call.network = (IF call.config.USE_GNN
                                              THEN "ActorCriticGNN"
                                              ELSE "ActorCriticMLP")

\* define_env with env_type "DeepRMSA" builds and wraps the RSA environment.
C14_Witness ==
    /\ call.fn = "define_env"
    /\ call.config.env_type = <<"D", "e", "e", "p", "r", "m", "s", "a">>
    /\ call.made = "make_rsa_env"
    /\ call.wrapped

(***************************************************************************)
(* make_lr_schedule(config) and the function lr_schedule it returns.       *)
(* Learning rates are fractions <<num, den>> with den > 0.                 *)
(***************************************************************************)
MaxUpdates == 2         \* NUM_UPDATES ranges over 1..MaxUpdates
MaxEpochs == 2          \* UPDATE_EPOCHS ranges over 1..MaxEpochs
MaxMinibatches == 2     \* NUM_MINIBATCHES ranges over 1..MaxMinibatches
MaxMultiplier == 2      \* SCHEDULE_MULTIPLIER ranges over 1..MaxMultiplier
MaxCount == 17          \* lr_schedule is called with counts 0..MaxCount

\* The product of two fractions.
RatMul(x, y) == Frac(x[1] * y[1], x[2] * y[2])

LrSchedules ==
    {"warmup_cosine", "linear", "constant", "cosine", "Linear", "CONSTANT", ""}

LrConfigs ==
    [LR_SCHEDULE : LrSchedules,
     LR : {Frac(1, 1000), Frac(3, 2)},
     NUM_UPDATES : 1 .. MaxUpdates,
     UPDATE_EPOCHS : 1 .. MaxEpochs,
     NUM_MINIBATCHES : 1 .. MaxMinibatches,
     SCHEDULE_MULTIPLIER : 1 .. MaxMultiplier,
     WARMUP_PEAK_MULTIPLIER : {2},
     WARMUP_STEPS_FRACTION : {Frac(1, 2)},
     WARMUP_END_FRACTION : {Frac(1, 10)}]

\* A block index that is the count itself.
count_itself(config, count) == count

\* count // (config.NUM_MINIBATCHES * config.UPDATE_EPOCHS)
block_index(config, count) ==
    count \div (config.NUM_MINIBATCHES * config.UPDATE_EPOCHS)

\* make_lr_schedule.linear_schedule(count)
linear_schedule(config, count) ==
    LET denominator == config.NUM_UPDATES * config.SCHEDULE_MULTIPLIER
        frac == Frac(denominator - block_index(config, count), denominator)
    IN RatMul(config.LR, frac)

\* A constant schedule that decays like the linear one.
schedule_decayed(config, x) == linear_schedule(config, x)

\* lambda x: config.LR
constant_schedule(config, x) == config.LR

\* total_steps of lr_schedule
total_steps(config) ==
    config.NUM_UPDATES * config.UPDATE_EPOCHS * config.NUM_MINIBATCHES
        * config.SCHEDULE_MULTIPLIER

\* optax.warmup_cosine_decay_schedule(...)(count), kept as the call it is.
warmup_cosine_schedule(config, count) ==
    [optax |-> "warmup_cosine_decay_schedule",
     init_value |-> config.LR,
     peak_value |-> FracMul(config.LR, config.WARMUP_PEAK_MULTIPLIER),
     warmup_steps |-> (total_steps(config) * config.WARMUP_STEPS_FRACTION[1])
                          \div config.WARMUP_STEPS_FRACTION[2],
     decay_steps |-> total_steps(config),
     end_value |-> RatMul(config.LR, config.WARMUP_END_FRACTION),
     count |-> count]

\* make_lr_schedule(config): defines the two functions and returns lr_schedule,
\* which holds config.
make_lr_schedule(config) ==
    [fn |-> "make_lr_schedule", config |-> config, raised |-> "none",
     returned |-> "lr_schedule"]

\* lr_schedule(count), with the config make_lr_schedule was given.
lr_schedule(config, count) ==
    IF config.LR_SCHEDULE = "warmup_cosine"
    THEN [fn |-> "lr_schedule", config |-> config, count |-> count,
          raised |-> "none", value |-> warmup_cosine_schedule(config, count)]
    ELSE IF config.LR_SCHEDULE = "linear"
    THEN [fn |-> "lr_schedule", config |-> config, count |-> count,
          raised |-> "none", value |-> linear_schedule(config, count)]
    ELSE IF config.LR_SCHEDULE = "constant"
    THEN [fn |-> "lr_schedule", config |-> config, count |-> count,
          raised |-> "none", value |-> constant_schedule(config, count)]
    ELSE [fn |-> "lr_schedule", config |-> config, count |-> count,
          raised |-> "ValueError", value |-> "none"]

InitLr ==
    /\ EstIdle
    /\ TrainIdle
    /\ UtilIdle

MakeLrSchedule ==
    /\ pc = "idle"
    /\ call = Idle
    /\ \E config \in LrConfigs : call' = make_lr_schedule(config)
    /\ UNCHANGED <<est_vars, train_vars, fs, warmup>>

\* The training loop calls the function make_lr_schedule returned.
LrSchedule ==
    /\ pc = "idle"
    /\ call.fn = "make_lr_schedule"
    /\ call.returned = "lr_schedule"
    /\ \E count \in 0 .. MaxCount : call' = lr_schedule(call.config, count)
    /\ UNCHANGED <<est_vars, train_vars, fs, warmup>>

NextLr == MakeLrSchedule \/ LrSchedule

SpecLr == InitLr /\ [][NextLr]_vars

\* C15: make_lr_schedule(config) with an LR_SCHEDULE other than
\* "warmup_cosine", "linear" and "constant" aborts at once: the call of
\* make_lr_schedule itself fails and no schedule function is returned.
C15_InvalidScheduleFailsAtMake ==
    (/\ call.fn = "make_lr_schedule"
     /\ call.config.LR_SCHEDULE \notin {"warmup_cosine", "linear", "constant"})
    => /\ call.raised = "ValueError"
       /\ call.returned = "none"

\* C16: with LR_SCHEDULE = "constant" the returned function gives exactly
\* config.LR for every step, whatever NUM_UPDATES, UPDATE_EPOCHS,
\* NUM_MINIBATCHES and SCHEDULE_MULTIPLIER are.
C16_ConstantScheduleIsLR ==
    (call.fn = "lr_schedule" /\ call.config.LR_SCHEDULE = "constant")
    => /\ call.raised = "none"
       /\ call.value = call.config.LR

C16_Witness ==
    /\ call.fn = "lr_schedule"
    /\ call.config.LR_SCHEDULE = "constant"
    /\ call.config.LR = Frac(1, 1000)
    /\ call.count = MaxCount
    /\ call.config.NUM_UPDATES > 1
    /\ call.value = Frac(1, 1000)

\* C17: with LR_SCHEDULE = "linear" the schedule at count c returns
\* LR x (1 - floor(c / (NUM_MINIBATCHES x UPDATE_EPOCHS))
\*             / (NUM_UPDATES x SCHEDULE_MULTIPLIER));
\* it equals LR at c = 0, is constant over each block of NUM_MINIBATCHES x
\* UPDATE_EPOCHS counts, is non-increasing in c, and is strictly positive for
\* every c below NUM_UPDATES x UPDATE_EPOCHS x NUM_MINIBATCHES x
\* SCHEDULE_MULTIPLIER.
C17_LinearSchedule ==
    (call.fn = "lr_schedule" /\ call.config.LR_SCHEDULE = "linear")
    => LET config == call.config
           block == config.NUM_MINIBATCHES * config.UPDATE_EPOCHS
           whole == config.NUM_UPDATES * config.SCHEDULE_MULTIPLIER
           k == call.count \div block
       IN /\ call.raised = "none"
          /\ call.value[2] > 0
          /\ call.value[1] * config.LR[2] * whole
                = config.LR[1] * (whole - k) * call.value[2]
          /\ call.count = 0 => call.value = config.LR
          /\ \A c \in 0 .. MaxCount :
                /\ (c \div block = k)
                      => lr_schedule(config, c).value = call.value
                /\ (c >= call.count)
                      => ~FracLess(call.value, lr_schedule(config, c).value)
          /\ (call.count < whole * block) => call.value[1] > 0

\* A count in the third block of four: the rate is half of LR.
C17_Witness ==
    /\ call.fn = "lr_schedule"
    /\ call.config.LR_SCHEDULE = "linear"
    /\ call.config.NUM_UPDATES * call.config.SCHEDULE_MULTIPLIER = 4
    /\ call.config.NUM_MINIBATCHES * call.config.UPDATE_EPOCHS = 4
    /\ call.count = 9
    /\ call.config.LR = Frac(3, 2)
    /\ call.value = Frac(3, 4)

(***************************************************************************)
(* scale_gradient(g, scale).  A float is a fraction <<num, den>> with      *)
(* den > 0, or <<1, 0>> (inf), <<-1, 0>> (-inf), <<0, 0>> (NaN).  The      *)
(* inputs are quarters of small integers and the infinities, for which     *)
(* every product and sum below is exact in float32.  An array under        *)
(* differentiation carries its value and its derivative with respect to    *)
(* the input.                                                              *)
(***************************************************************************)
MaxQuarters == 8    \* finite inputs are k/4 for k in -MaxQuarters..MaxQuarters

NaN == <<0, 0>>

IsNaN(x) == x = <<0, 0>>

IsInf(x) == x[2] = 0 /\ x[1] # 0

Sign(n) == IF n > 0 THEN 1 ELSE IF n < 0 THEN 0 - 1 ELSE 0

\* x * y in IEEE arithmetic.
FloatMul(x, y) ==
    IF IsNaN(x) \/ IsNaN(y) THEN NaN
    ELSE IF IsInf(x) \/ IsInf(y)
    THEN <<Sign(x[1]) * Sign(y[1]), 0>>
    ELSE Frac(x[1] * y[1], x[2] * y[2])

\* x + y in IEEE arithmetic.
FloatAdd(x, y) ==
    IF IsNaN(x) \/ IsNaN(y) THEN NaN
    ELSE IF IsInf(x) /\ IsInf(y) THEN (IF x = y THEN x ELSE NaN)
    ELSE IF IsInf(x) THEN x
    ELSE IF IsInf(y) THEN y
    ELSE Frac(x[1] * y[2] + y[1] * x[2], x[2] * y[2])

\* 1.0 - scale, for a finite scale.
OneMinus(scale) == Frac(scale[2] - scale[1], scale[2])

GradientValues ==
    {Frac(k, 4) : k \in (0 - MaxQuarters) .. MaxQuarters} \cup {<<1, 0>>, <<0 - 1, 0>>}

GradientScales ==
    {Frac(0, 1), Frac(1, 2), Frac(1, 1), Frac(2, 1), Frac(1, 4), Frac(3, 1),
     Frac(4, 1), Frac(0 - 1, 1)}

\* The input g of the differentiated function: its derivative is 1.
input_array(value) == [val |-> value, tan |-> Frac(1, 1)]

\* jax.lax.stop_gradient(g)
stop_gradient(g) == [val |-> g.val, tan |-> Frac(0, 1)]

\* array * scalar
scalar_mul(g, k) == [val |-> FloatMul(g.val, k), tan |-> FloatMul(g.tan, k)]

\* array + array
array_add(a, b) == [val |-> FloatAdd(a.val, b.val), tan |-> FloatAdd(a.tan, b.tan)]

\* g * scale + jax.lax.stop_gradient(g) * (1.0 - scale)
scale_gradient(g, scale) ==
    array_add(scalar_mul(g, scale), scalar_mul(stop_gradient(g), OneMinus(scale)))

InitScale ==
    /\ EstIdle
    /\ TrainIdle
    /\ UtilIdle

ScaleGradient ==
    /\ pc = "idle"
    /\ call = Idle
    /\ \E value \in GradientValues, scale \in GradientScales :
          call' = [fn |-> "scale_gradient", g |-> value, scale |-> scale,
                   out |-> scale_gradient(input_array(value), scale)]
    /\ UNCHANGED <<est_vars, train_vars, fs, warmup>>

NextScale == ScaleGradient

SpecScale == InitScale /\ [][NextScale]_vars

\* C18: scale_gradient(value, scale) returns a forward value equal to value
\* for every scale, and the derivative of its output with respect to value is
\* scale.
C18_ForwardValueKeptGradientScaled ==
    call.fn = "scale_gradient" =>
        /\ call.out.val = call.g
        /\ call.out.tan = call.scale

(***************************************************************************)
(* log_metrics(config, out, experiment_name, total_time, merge_func): the  *)
(* aggregation of the metrics behind the blocking probabilities.  A metric *)
(* array of merged_out is a sequence over environments of sequences over   *)
(* steps.  There are two environments, so that a standard deviation across *)
(* environments, |a - b| / 2, is a fraction.                               *)
(***************************************************************************)
MaxMetricSteps == 3     \* the metric arrays hold 2..MaxMetricSteps steps
MaxDownsample == 2      \* DOWNSAMPLE_FACTOR ranges over 1..MaxDownsample

MetricEnvs == {1, 2}

\* x / y in IEEE arithmetic, for finite x and y.
FloatDiv(x, y) ==
    IF IsNaN(x) \/ IsNaN(y) THEN NaN
    ELSE IF y[1] = 0 THEN <<Sign(x[1]), 0>>
    ELSE IF y[1] > 0 THEN Frac(x[1] * y[2], x[2] * y[1])
    ELSE Frac(0 - (x[1] * y[2]), 0 - (x[2] * y[1]))

FloatNeg(x) == <<0 - x[1], x[2]>>

RECURSIVE FloatSum(_)
FloatSum(v) == IF v = <<>> THEN Frac(0, 1) ELSE FloatAdd(Head(v), FloatSum(Tail(v)))

\* v.mean(); the mean of no value is nan.
Mean(v) == FloatDiv(FloatSum(v), Frac(Len(v), 1))

\* The square root of a fraction that is a square.
SqrtFrac(x) ==
    IF IsNaN(x) THEN NaN
    ELSE <<CHOOSE r \in 0 .. x[1] : r * r = x[1], CHOOSE r \in 0 .. x[2] : r * r = x[2]>>

Deviation(x, m) == FloatMul(FloatAdd(x, FloatNeg(m)), FloatAdd(x, FloatNeg(m)))

\* v.std(): the root of the mean squared deviation from the mean.
Std(v) ==
    LET squares(m) == [k \in 1 .. Len(v) |-> Deviation(v[k], m)] \o <<>>
    IN SqrtFrac(Mean(squares(Mean(v))))

Column(x, t) == [e \in 1 .. Len(x) |-> x[e][t]] \o <<>>

\* x.mean(0).reshape(-1)
MeanOverEnvs(x) == [t \in 1 .. Len(x[1]) |-> Mean(Column(x, t))] \o <<>>

\* x.std(0).reshape(-1)
StdOverEnvs(x) == [t \in 1 .. Len(x[1]) |-> Std(Column(x, t))] \o <<>>

\* x.reshape(-1)
Reshape1(x) == Flatten(x)

\* np.where(v == 1)[0] - 1, as positions 1..Len(v) of v: the position before
\* each 1, and the last position for a 1 at the first position (index -1).
EndsBefore(v) ==
    LET hits == SelectSeq([k \in 1 .. Len(v) |-> k] \o <<>>,
                          LAMBDA k : v[k] = Frac(1, 1))
    IN [h \in 1 .. Len(hits) |-> IF hits[h] = 1 THEN Len(v) ELSE hits[h] - 1] \o <<>>

\* np.arange(0, TOTAL_TIMESTEPS, max_timesteps)[1:].astype(int) - 1, as
\* positions.
EvenEnds(TOTAL_TIMESTEPS, max_timesteps) ==
    [h \in 1 .. ((TOTAL_TIMESTEPS - 1) \div max_timesteps) |-> h * max_timesteps]
        \o <<>>

\* v[indices]
Take(v, indices) == [h \in 1 .. Len(indices) |-> v[indices[h]]] \o <<>>

\* jnp.full(v.shape, v.std())
FullStd(v) == [h \in 1 .. Len(v) |-> Std(v)] \o <<>>

\* Series that are handed on as they are.
downsample_skipped(v, factor, chop) == v

\* A downsampling that drops the trailing remainder instead of the leading one.
downsample_trailing(v, factor, chop) ==
    [b \in 1 .. ((Len(v) - chop) \div factor) |->
        Mean(SubSeq(v, (b - 1) * factor + 1, b * factor))] \o <<>>

\* v[chop:].reshape(-1, DOWNSAMPLE_FACTOR).mean(axis=1)
downsample(v, factor, chop) ==
    [b \in 1 .. ((Len(v) - chop) \div factor) |->
        Mean(SubSeq(v, chop + (b - 1) * factor + 1, chop + b * factor))] \o <<>>

\* 1 - (a / b), element by element.
blocking_probability(a, b) ==
    [h \in 1 .. Len(a) |-> FloatAdd(Frac(1, 1), FloatNeg(FloatDiv(a[h], b[h])))] \o <<>>

\* A blocking probability taken from the neighbouring index.
blocking_probability_std_shifted(a_std, b) ==
    [h \in 1 .. Len(a_std) |-> FloatDiv(a_std[h], b[IF h < Len(b) THEN h + 1 ELSE 1])]
        \o <<>>

\* a_std / b, element by element.
blocking_probability_std(a_std, b) ==
    [h \in 1 .. Len(a_std) |-> FloatDiv(a_std[h], b[h])] \o <<>>

\* The metric arrays of a rollout.  Every step serves one request, of bit
\* rate RequestBitrate(t); accept[e][t] tells whether environment e accepted
\* it, done[e][t] whether its episode ended there.  The counters restart after
\* an episode end.
RequestBitrate(t) == t

RECURSIVE EpisodeStart(_, _)
EpisodeStart(done, t) == IF t = 1 \/ done[t - 1] = 1 THEN t ELSE EpisodeStart(done, t - 1)

RECURSIVE Accumulated(_, _, _)
Accumulated(values, from, t) == IF t < from THEN 0 ELSE values[t] + Accumulated(values, from, t - 1)

MetricArray(done, values) ==
    [e \in 1 .. Len(done) |->
        [t \in 1 .. Len(done[e]) |->
            Frac(Accumulated(values[e], EpisodeStart(done[e], t), t), 1)] \o <<>>] \o <<>>

UniformDone(steps, max_timesteps) ==
    [e \in MetricEnvs |-> [t \in 1 .. steps |-> IF t % max_timesteps = 0 THEN 1 ELSE 0]]

FirstBlockingDone(accept) ==
    [e \in MetricEnvs |-> [t \in 1 .. Len(accept[e]) |-> IF accept[e][t] THEN 0 ELSE 1]]

Rollout(done, accept) ==
    [done |-> [e \in MetricEnvs |-> [t \in 1 .. Len(done[e]) |-> Frac(done[e][t], 1)]],
     lengths |-> MetricArray(done, [e \in MetricEnvs |-> [t \in 1 .. Len(done[e]) |-> 1]]),
     accepted_services |->
        MetricArray(done, [e \in MetricEnvs |->
            [t \in 1 .. Len(done[e]) |-> IF accept[e][t] THEN 1 ELSE 0]]),
     accepted_bitrate |->
        MetricArray(done, [e \in MetricEnvs |->
            [t \in 1 .. Len(done[e]) |-> IF accept[e][t] THEN RequestBitrate(t) ELSE 0]]),
     total_bitrate |->
        MetricArray(done, [e \in MetricEnvs |->
            [t \in 1 .. Len(done[e]) |-> RequestBitrate(t)]])]

DoneCount(out) == Len(SelectSeq(Flatten(out.done), LAMBDA d : d = Frac(1, 1)))

\* The fields of config read up to the prints (lines 393-587).
MetricConfigs(steps) ==
    [end_first_blocking : BOOLEAN, continuous_operation : BOOLEAN, WANDB : BOOLEAN,
     DOWNSAMPLE_FACTOR : 1 .. MaxDownsample, TOTAL_TIMESTEPS : {steps},
     max_timesteps : 1 .. steps]

\* The fields of config read after the prints (lines 589 and 638), for their
\* truth value only.
TrajectoryConfigs == [log_actions : BOOLEAN, TRAJ_DATA_OUTPUT_FILE : BOOLEAN]

\* The done flags of a run: at every max_timesteps-th step, or at every step
\* whose request is blocked.
MetricDones(config, accept) ==
    {UniformDone(config.TOTAL_TIMESTEPS, config.max_timesteps), FirstBlockingDone(accept)}

\* The episode-end values of a variable-length run are compared over at most
\* two episode ends: their standard deviation is then a fraction.
MetricInputAllowed(config, done) ==
    config.end_first_blocking => Len(SelectSeq(Flatten(done), LAMBDA x : x = 1)) <= 2

\* episode_ends (lines 398-409), as positions.
episode_ends_of(config, merged_out) ==
    IF config.end_first_blocking THEN EndsBefore(Reshape1(merged_out.done))
    ELSE IF ~config.continuous_operation THEN EndsBefore(MeanOverEnvs(merged_out.done))
    ELSE EvenEnds(config.TOTAL_TIMESTEPS, config.max_timesteps)

get_mean(x, y) == MeanOverEnvs(x[y])

get_std(x, y) == StdOverEnvs(x[y])

get_episode_end_mean(config, episode_ends, x) ==
    IF config.end_first_blocking THEN Take(Reshape1(x), episode_ends)
    ELSE Take(MeanOverEnvs(x), episode_ends)

get_episode_end_std(config, episode_ends, x) ==
    IF config.end_first_blocking THEN FullStd(Take(Reshape1(x), episode_ends))
    ELSE Take(StdOverEnvs(x), episode_ends)

\* The series of one stage of log_metrics, with the blocking probabilities
\* derived from them.
Derived(a_mean, a_std, l_mean, ab_mean, ab_std, tb_mean) ==
    [accepted_services_mean |-> a_mean, accepted_services_std |-> a_std,
     lengths_mean |-> l_mean,
     accepted_bitrate_mean |-> ab_mean, accepted_bitrate_std |-> ab_std,
     total_bitrate_mean |-> tb_mean,
     service_blocking_probability |-> blocking_probability(a_mean, l_mean),
     service_blocking_probability_std |-> blocking_probability_std(a_std, l_mean),
     bitrate_blocking_probability |-> blocking_probability(ab_mean, tb_mean),
     bitrate_blocking_probability_std |-> blocking_probability_std(ab_std, tb_mean)]

\* Lines 412-429.
episode_end_series(config, merged_out, episode_ends) ==
    Derived(get_episode_end_mean(config, episode_ends, merged_out.accepted_services),
            get_episode_end_std(config, episode_ends, merged_out.accepted_services),
            get_episode_end_mean(config, episode_ends, merged_out.lengths),
            get_episode_end_mean(config, episode_ends, merged_out.accepted_bitrate),
            get_episode_end_std(config, episode_ends, merged_out.accepted_bitrate),
            get_episode_end_mean(config, episode_ends, merged_out.total_bitrate))

\* Lines 432-463.
step_series(config, merged_out, episode_end) ==
    IF config.end_first_blocking THEN episode_end
    ELSE Derived(get_mean(merged_out, "accepted_services"),
                 get_std(merged_out, "accepted_services"),
                 get_mean(merged_out, "lengths"),
                 get_mean(merged_out, "accepted_bitrate"),
                 get_std(merged_out, "accepted_bitrate"),
                 get_mean(merged_out, "total_bitrate"))

\* Lines 508-537: every series is downsampled on its own.
downsampled(config, series, chop) ==
    [k \in DOMAIN series |-> downsample(series[k], config.DOWNSAMPLE_FACTOR, chop)]

\* The series as they stand after the config.WANDB block: the records logged
\* there, and what the later reports read.
final_series(config, series) ==
    IF config.WANDB
    THEN downsampled(config, series,
                     Len(series.lengths_mean) % config.DOWNSAMPLE_FACTOR)
    ELSE series

\* Lines 550-574: one record per entry of the downsampled series.
wandb_records(config, final) ==
    IF ~config.WANDB THEN <<>>
    ELSE [r \in 1 .. Len(final.lengths_mean) |->
            [update_step |-> (r - 1) * config.DOWNSAMPLE_FACTOR,
             lengths_mean |-> final.lengths_mean[r],
             service_blocking_probability |-> final.service_blocking_probability[r],
             bitrate_blocking_probability |-> final.bitrate_blocking_probability[r],
             accepted_services_mean |-> final.accepted_services_mean[r],
             accepted_bitrate_mean |-> final.accepted_bitrate_mean[r],
             total_bitrate_mean |-> final.total_bitrate_mean[r]]] \o <<>>

\* The series read by the prints and by the trajectory file, in their order.
PrintedSeries ==
    <<"service_blocking_probability", "service_blocking_probability_std",
      "bitrate_blocking_probability", "bitrate_blocking_probability_std",
      "accepted_services_mean", "accepted_services_std",
      "accepted_bitrate_mean", "accepted_bitrate_std">>

\* Lines 576-587: the values handed to the four prints, x[-1] under
\* config.continuous_operation and x_episode_end.mean() otherwise; x[-1] of an
\* empty series raises IndexError.
printed_values(config, episode_end, final) ==
    IF config.continuous_operation /\ Len(final.lengths_mean) = 0
    THEN [raised |-> "IndexError", values |-> <<>>]
    ELSE [raised |-> "none",
          values |-> [k \in 1 .. Len(PrintedSeries) |->
                        IF config.continuous_operation
                        THEN final[PrintedSeries[k]][Len(final[PrintedSeries[k]])]
                        ELSE Mean(episode_end[PrintedSeries[k]])] \o <<>>]

\* Lines 653-655: the columns of the trajectory file taken from the series.
trajectory_columns(final) ==
    [bitrate_blocking_probability |-> final.bitrate_blocking_probability,
     service_blocking_probability |-> final.service_blocking_probability]

NoColumns == [bitrate_blocking_probability |-> <<>>, service_blocking_probability |-> <<>>]

\* Lines 601-609: x.reshape((x.shape[0], -1))[0], the request columns of the
\* trajectory file hold one entry per step of the first environment.
request_length(merged_out) == Len(merged_out.done[1])

\* Lines 589-657: the trajectory file.  Nothing after the prints runs when they
\* raise; the DataFrame is built only under config.log_actions and
\* config.TRAJ_DATA_OUTPUT_FILE; pd.DataFrame raises ValueError, before to_csv
\* writes anything, when the series columns and the request columns differ in
\* length.
trajectory_file(config, merged_out, printed, final) ==
    IF printed.raised # "none"
       \/ ~config.log_actions \/ ~config.TRAJ_DATA_OUTPUT_FILE
    THEN [raised |-> "none", written |-> FALSE, columns |-> NoColumns]
    ELSE IF Len(final.bitrate_blocking_probability) # request_length(merged_out)
    THEN [raised |-> "ValueError", written |-> FALSE, columns |-> NoColumns]
    ELSE [raised |-> "none", written |-> TRUE, columns |-> trajectory_columns(final)]

log_metrics_logged(config, episode_end, series, final) ==
    [episode_end |-> episode_end, series |-> series,
     reported |-> final, logged |-> wandb_records(config, final),
     printed |-> printed_values(config, episode_end, final)]

log_metrics_from(config, episode_end, series) ==
    log_metrics_logged(config, episode_end, series, final_series(config, series))

log_metrics_with(config, merged_out, episode_end) ==
    log_metrics_from(config, episode_end, step_series(config, merged_out, episode_end))

\* Lines 393-587: log_metrics up to the prints.
log_metrics_at(config, merged_out, episode_ends) ==
    [done |-> merged_out.done, episode_ends |-> episode_ends]
    @@ log_metrics_with(config, merged_out,
                        episode_end_series(config, merged_out, episode_ends))

\* Lines 589-657: the call's record with the outcome of the trajectory file.
log_metrics_saved(config, merged_out, logged) ==
    [fn |-> "log_metrics", config |-> config,
     trajectory |-> trajectory_file(config, merged_out, logged.printed, logged.reported)]
    @@ logged

log_metrics(config, merged_out) ==
    log_metrics_saved(config, merged_out,
                      log_metrics_at(config, merged_out,
                                     episode_ends_of(config, merged_out)))

InitMetrics ==
    /\ EstIdle
    /\ TrainIdle
    /\ UtilIdle

LogMetrics ==
    /\ pc = "idle"
    /\ call = Idle
    /\ \E steps \in 2 .. MaxMetricSteps :
       \E read \in MetricConfigs(steps), accept \in [MetricEnvs -> [1 .. steps -> BOOLEAN]] :
       \E done \in MetricDones(read, accept) :
          /\ MetricInputAllowed(read, done)
          /\ \E merged_out \in {Rollout(done, accept)} :
             \E logged \in {log_metrics_at(read, merged_out,
                                           episode_ends_of(read, merged_out))} :
             \E config \in {flags @@ read : flags \in TrajectoryConfigs} :
                call' = log_metrics_saved(config, merged_out, logged)
    /\ UNCHANGED <<est_vars, train_vars, fs, warmup>>

NextMetrics == LogMetrics

SpecMetrics == InitMetrics /\ [][NextMetrics]_vars

\* The blocking probabilities of a table of series agree, at every index,
\* with the means and standard deviations of the table at that index.
IdentityAt(table, i) ==
    /\ table.service_blocking_probability[i]
         = FloatAdd(Frac(1, 1), FloatNeg(FloatDiv(table.accepted_services_mean[i],
                                                  table.lengths_mean[i])))
    /\ table.service_blocking_probability_std[i]
         = FloatDiv(table.accepted_services_std[i], table.lengths_mean[i])
    /\ table.bitrate_blocking_probability[i]
         = FloatAdd(Frac(1, 1), FloatNeg(FloatDiv(table.accepted_bitrate_mean[i],
                                                  table.total_bitrate_mean[i])))
    /\ table.bitrate_blocking_probability_std[i]
         = FloatDiv(table.accepted_bitrate_std[i], table.total_bitrate_mean[i])

SameLengths(table) == \A k \in DOMAIN table : Len(table[k]) = Len(table.lengths_mean)

IdentityHolds(table) ==
    /\ SameLengths(table)
    /\ \A i \in 1 .. Len(table.lengths_mean) : IdentityAt(table, i)

\* C19, as stated: at every index log_metrics reports, in both regimes, the
\* service blocking probability is 1 - accepted_services_mean / lengths_mean
\* with standard deviation accepted_services_std / lengths_mean, and the
\* bitrate blocking probability is 1 - accepted_bitrate_mean /
\* total_bitrate_mean with standard deviation accepted_bitrate_std /
\* total_bitrate_mean, the operands taken at the same index.  The records
\* logged under config.WANDB are reported records too.
C19_BlockingProbabilityAtEveryReportedIndex ==
    call.fn = "log_metrics"
        => /\ IdentityHolds(call.episode_end)
           /\ IdentityHolds(call.reported)

\* C19, amended: the identity holds at every index of the episode-end series
\* and of the series as derived, in both regimes, and at every index of the
\* reported series unless they were downsampled by a factor above 1.
C19_BlockingProbabilityBeforeDownsampling ==
    call.fn = "log_metrics"
        => /\ IdentityHolds(call.episode_end)
           /\ IdentityHolds(call.series)
           /\ (~call.config.WANDB \/ call.config.DOWNSAMPLE_FACTOR = 1)
                => call.reported = call.series
           /\ SameLengths(call.reported)

Between0And1(x) == 0 < x[1] /\ x[1] < x[2]

SeriesWitness(table) ==
    \E i \in 1 .. Len(table.lengths_mean) :
        /\ Between0And1(table.service_blocking_probability[i])
        /\ Between0And1(table.bitrate_blocking_probability[i])
        /\ Between0And1(table.service_blocking_probability_std[i])
        /\ table.lengths_mean[i] # Frac(1, 1)

C19_Witness ==
    /\ call.fn = "log_metrics"
    /\ ~call.config.end_first_blocking
    /\ SeriesWitness(call.series)
    /\ SeriesWitness(call.episode_end)

C19_WitnessEndFirst ==
    /\ call.fn = "log_metrics"
    /\ call.config.end_first_blocking
    /\ SeriesWitness(call.episode_end)

C19_WitnessDownsampled ==
    /\ call.fn = "log_metrics"
    /\ call.config.WANDB
    /\ call.config.DOWNSAMPLE_FACTOR > 1
    /\ \E i \in 1 .. Len(call.reported.lengths_mean) : ~IdentityAt(call.reported, i)

(***************************************************************************)
(* get_warmup_fn(warmup_state, env, params, train_state, config): the      *)
(* closure warmup_fn and its fori_loop over warmup_step.  The variable     *)
(* warmup holds the loop: its index i, the carried value                   *)
(* (rng, state, params, train_state, last_obs) and the iterations run so   *)
(* far.  The environment keeps one slot per action; a step on a slot       *)
(* occupies it when free and releases it when occupied.                    *)
(***************************************************************************)
MaxWarmupSteps == 3     \* ENV_WARMUP_STEPS ranges over 0..MaxWarmupSteps

env_params == "env_params"

\* jax.random.split(_rng, 3): a key is the path of the splits that made it.
split3(rng) == <<rng \o <<0>>, rng \o <<1>>, rng \o <<2>>>>

WarmupStates ==
    {[env_state |-> [occupied |-> [a \in Actions |-> a = 0 /\ first], t |-> 0]] :
        first \in BOOLEAN}

\* The observation of a reset, in the form warmup_step gives observations.
ResetObs(config, state) ==
    IF config.USE_GNN THEN <<state.env_state, env_params>>
    ELSE <<[request |-> 0, t |-> state.env_state.t]>>

WarmupTrainStates ==
    {[step |-> 3, apply_fn |-> "policy", params |-> row, tx |-> "sgd", opt_state |-> <<>>] :
        row \in {[a \in Actions |-> 0], [a \in Actions |-> IF a = 0 THEN 0 ELSE 1]}}

WarmupConfigs ==
    [ENV_WARMUP_STEPS : 0 .. MaxWarmupSteps, USE_GNN : BOOLEAN, env_type : {rsa},
     ACTION_MASKING : BOOLEAN, deterministic : BOOLEAN]

\* train_state.apply_fn(train_state.params, last_obs): a policy that tells the
\* reset observation from the later ones.
policy_heads(_train_state, _last_obs) ==
    <<IF _last_obs[1].t = 0 THEN _train_state.params ELSE Reversed(_train_state.params)>>

\* The masks env computes from a state.
mask_env(_state) ==
    [src_ok |-> [a \in Actions |-> TRUE], dest_rule |-> "all", slot_rule |-> "all",
     slot_ok |-> [a \in Actions |-> ~_state.env_state.occupied[a]]]

\* env.step(step_key, _state, action, params)
env_step(step_key, _state, action, params) ==
    [obsv |-> [request |-> (Len(step_key) + action) % 2, t |-> _state.env_state.t + 1],
     state |-> [env_state |->
                  [occupied |-> [_state.env_state.occupied EXCEPT ![action] = ~@],
                   t |-> _state.env_state.t + 1]],
     reward |-> IF _state.env_state.occupied[action] THEN 0 - 1 ELSE 1,
     done |-> FALSE]

\* A train state after an update it should not get.
train_state_stepped(_train_state) == [_train_state EXCEPT !.step = @ + 1]

\* The train state warmup_step hands on.
train_state_carried(_train_state) == _train_state

\* obsv = (_state.env_state, params) if config.USE_GNN else tuple([obsv])
next_obs(config, stepped, params) ==
    IF config.USE_GNN THEN <<stepped.state.env_state, params>> ELSE <<stepped.obsv>>

\* What warmup_step returns for the action select_action gave.
warmup_step_with(config, params, keys, val, action, stepped) ==
    [val |-> <<keys[1], stepped.state, val[3], train_state_carried(val[4]),
               next_obs(config, stepped, params)>>,
     iteration |-> [select_key |-> keys[1], action_key |-> keys[2],
                    carried_key |-> keys[1],
                    selected_on |-> <<val[2], val[5]>>, action |-> action,
                    stepped_from |-> val[2], step_key |-> keys[3],
                    stepped_to |-> stepped.state, obsv |-> stepped.obsv]]

\* warmup_step(i, val): the values it can return (the draws differ).
warmup_step(config, params, i, val) ==
    {warmup_step_with(config, params, split3(val[1]), val, selected.action,
                      env_step(split3(val[1])[3], val[2], selected.action, params)) :
        selected \in select_action(config, policy_heads(val[4], val[5]), mask_env(val[2]))}

\* A loop that runs its body once more.
fori_continues_inclusive(i, upper) == i <= upper

\* jax.lax.fori_loop(0, upper, ...): the body runs for i = 0 .. upper - 1.
fori_continues(i, upper) == i < upper

InitWarmup ==
    /\ EstIdle
    /\ TrainIdle
    /\ UtilIdle

\* warmup_fn(warmup_state), up to the start of the loop.
WarmupFn ==
    /\ pc = "idle"
    /\ call = Idle
    /\ warmup = NoWarmup
    /\ \E config \in WarmupConfigs, state \in WarmupStates, ts \in WarmupTrainStates :
         warmup' = [fn |-> "warmup_fn", config |-> config, params |-> env_params,
                    train_state |-> ts, warmup_state |-> <<<<>>, state, ResetObs(config, state)>>,
                    i |-> 0, vals |-> <<<<>>, state, env_params, ts, ResetObs(config, state)>>,
                    iterations |-> <<>>]
    /\ UNCHANGED <<est_vars, train_vars, call, fs>>

\* One iteration of the fori_loop.
WarmupStep ==
    /\ warmup.fn = "warmup_fn"
    /\ fori_continues(warmup.i, warmup.config.ENV_WARMUP_STEPS)
    /\ \E next \in warmup_step(warmup.config, warmup.params, warmup.i, warmup.vals) :
         warmup' = [warmup EXCEPT !.i = @ + 1, !.vals = next.val,
                                  !.iterations = Append(@, next.iteration)]
    /\ UNCHANGED <<est_vars, train_vars, call, fs>>

\* The end of the loop: return vals[1], vals[4].
WarmupReturn ==
    /\ warmup.fn = "warmup_fn"
    /\ ~fori_continues(warmup.i, warmup.config.ENV_WARMUP_STEPS)
    /\ call' = [fn |-> "warmup_fn", returned |-> <<warmup.vals[2], warmup.vals[5]>>]
    /\ warmup' = [warmup EXCEPT !.fn = "returned"]
    /\ UNCHANGED <<est_vars, train_vars, fs>>

NextWarmup ==
    \/ WarmupFn
    \/ WarmupStep
    \/ WarmupReturn

\* A call of the closure runs on: nothing suspends the loop.
SpecWarmup ==
    InitWarmup /\ [][NextWarmup]_vars /\ WF_vars(WarmupStep) /\ WF_vars(WarmupReturn)

WarmupCalled == warmup.fn \in {"warmup_fn", "returned"}

\* The state and the observation iteration k starts from.
StateBefore(k) ==
    IF k = 1 THEN warmup.warmup_state[2] ELSE warmup.iterations[k - 1].stepped_to

ObsBefore(k) ==
    IF k = 1 THEN warmup.warmup_state[3]
    ELSE IF warmup.config.USE_GNN
         THEN <<warmup.iterations[k - 1].stepped_to.env_state, warmup.params>>
         ELSE <<warmup.iterations[k - 1].obsv>>

SelectThenStep(k) ==
    /\ warmup.iterations[k].selected_on = <<StateBefore(k), ObsBefore(k)>>
    /\ warmup.iterations[k].action
         \in {selected.action :
                selected \in select_action(warmup.config,
                                           policy_heads(warmup.train_state, ObsBefore(k)),
                                           mask_env(StateBefore(k)))}
    /\ warmup.iterations[k].stepped_from = StateBefore(k)
    /\ warmup.iterations[k].stepped_to
         = env_step(warmup.iterations[k].step_key, StateBefore(k),
                    warmup.iterations[k].action, warmup.params).state

WarmupRuns ==
    WarmupCalled
        => /\ Len(warmup.iterations) = warmup.i
           /\ warmup.i <= warmup.config.ENV_WARMUP_STEPS
           /\ \A k \in 1 .. Len(warmup.iterations) : SelectThenStep(k)
           /\ warmup.vals[4] = warmup.train_state
           /\ warmup.vals[3] = warmup.params

WarmupReturns ==
    warmup.fn = "returned"
        => /\ call.fn = "warmup_fn"
           /\ Len(warmup.iterations) = warmup.config.ENV_WARMUP_STEPS
           /\ call.returned = <<StateBefore(warmup.config.ENV_WARMUP_STEPS + 1),
                                ObsBefore(warmup.config.ENV_WARMUP_STEPS + 1)>>
           /\ warmup.config.ENV_WARMUP_STEPS = 0
                => call.returned = <<warmup.warmup_state[2], warmup.warmup_state[3]>>

\* C20: a call of the closure returned by get_warmup_fn always ends, after
\* exactly config.ENV_WARMUP_STEPS iterations, each one select_action followed
\* by one env.step on the state the previous iteration produced; the carried
\* train_state (and params) stay as passed in; the call returns the state and
\* the observation of the last step, and the input state and observation when
\* ENV_WARMUP_STEPS = 0.
C20_WarmupRunsExactlyItsSteps ==
    /\ [](WarmupRuns /\ WarmupReturns)
    /\ (warmup.fn = "warmup_fn") ~> (warmup.fn = "returned")

C20_Witness ==
    /\ warmup.fn = "returned"
    /\ Len(warmup.iterations) >= 2
    /\ call.returned[1] # warmup.warmup_state[2]
    /\ call.returned[2] # warmup.warmup_state[3]
    /\ warmup.iterations[2].stepped_from = warmup.iterations[1].stepped_to

RECURSIVE BlockSum(_, _, _)
BlockSum(v, start, n) == IF n = 0 THEN Frac(0, 1) ELSE FloatAdd(v[start + n], BlockSum(v, start, n - 1))

\* Value b (counted from 0) of a downsampled series is the average of the F
\* entries of the full series that start at entry (L mod F) + b * F (counted
\* from 0).
DownsampledFrom(full, short, F) ==
    /\ Len(short) = Len(full) \div F
    /\ \A b \in 0 .. (Len(short) - 1) :
         short[b + 1] = FloatDiv(BlockSum(full, (Len(full) % F) + b * F, F), Frac(F, 1))

\* C21: with config.WANDB set, every per-update-step series of length L is
\* downsampled by F = config.DOWNSAMPLE_FACTOR to floor(L / F) values, value b
\* being the average of the F consecutive entries from (L mod F) + b * F on,
\* and record i is logged with update_step = i * F.
C21_DownsampleDropsLeadingRemainder ==
    (call.fn = "log_metrics" /\ call.config.WANDB)
        => /\ \A k \in DOMAIN call.series :
                DownsampledFrom(call.series[k], call.reported[k],
                                call.config.DOWNSAMPLE_FACTOR)
           /\ Len(call.logged) = Len(call.series.lengths_mean) \div call.config.DOWNSAMPLE_FACTOR
           /\ \A i \in 0 .. (Len(call.logged) - 1) :
                /\ call.logged[i + 1].update_step = i * call.config.DOWNSAMPLE_FACTOR
                /\ call.logged[i + 1].lengths_mean = call.reported.lengths_mean[i + 1]

C21_Witness ==
    /\ call.fn = "log_metrics"
    /\ call.config.WANDB
    /\ call.config.DOWNSAMPLE_FACTOR = 2
    /\ Len(call.series.lengths_mean) = 3
    /\ Len(call.logged) = 1
    /\ call.series.accepted_bitrate_mean[1] # call.series.accepted_bitrate_mean[3]
    /\ call.reported.accepted_bitrate_mean[1] # call.series.accepted_bitrate_mean[1]

(***************************************************************************)
(* Path-derived mode: get_cutset_from_path and find_congested_cuts_simple. *)
(* A matrix is a function on pairs of nodes; a partition or a path row is  *)
(* a sequence of 0s and 1s.                                                *)
(***************************************************************************)
MaxPaths == 2           \* path_link_array holds 1..MaxPaths rows

\* (m.sum(axis=0) + m.sum(axis=1)) > 0, per node.
touched(m, num_nodes) ==
    [j \in 1 .. num_nodes |->
        (SumSeq([i \in 1 .. num_nodes |-> m[<<i - 1, j - 1>>]])
         + SumSeq([i \in 1 .. num_nodes |-> m[<<j - 1, i - 1>>]])) > 0] \o <<>>

\* make_complete_subgraph(path_adj_matrix, adj_matrix)
make_complete_subgraph_of(active, adj_matrix, num_nodes) ==
    [ij \in Nodes(num_nodes) \X Nodes(num_nodes) |->
        IF active[ij[1] + 1] /\ active[ij[2] + 1] THEN adj_matrix[ij] ELSE 0]

make_complete_subgraph(path_adj_matrix, adj_matrix, num_nodes) ==
    make_complete_subgraph_of(touched(path_adj_matrix, num_nodes), adj_matrix, num_nodes)

\* find_cutset_adj(subgraph_matrix, full_matrix), as 0 and 1.
find_cutset_adj_of(in_subgraph, full_matrix, num_nodes) ==
    [ij \in Nodes(num_nodes) \X Nodes(num_nodes) |->
        IF /\ full_matrix[ij] # 0
           /\ \/ (in_subgraph[ij[1] + 1] /\ ~in_subgraph[ij[2] + 1])
              \/ (~in_subgraph[ij[1] + 1] /\ in_subgraph[ij[2] + 1])
        THEN 1 ELSE 0]

find_cutset_adj(subgraph_matrix, full_matrix, num_nodes) ==
    find_cutset_adj_of(touched(subgraph_matrix, num_nodes), full_matrix, num_nodes)

\* remaining_graph = adjacency.val * (1 - cutset_adjacency)
remaining_graph_of(adjacency, cutset_adjacency, num_nodes) ==
    [ij \in Nodes(num_nodes) \X Nodes(num_nodes) |->
        adjacency[ij] * (1 - cutset_adjacency[ij])]

\* A propagation that forgets the nodes reached before.
update_reachable_forgetful(reachable, remaining_graph, num_nodes) ==
    [j \in 1 .. num_nodes |->
        IF SumSeq([i \in 1 .. num_nodes |-> reachable[i] * remaining_graph[<<i - 1, j - 1>>]]) > 0
        THEN 1 ELSE 0] \o <<>>

\* new_reachable = matmul(reachable, remaining_graph);
\* where(new_reachable > 0, 1, reachable)
update_reachable(reachable, remaining_graph, num_nodes) ==
    [j \in 1 .. num_nodes |->
        IF SumSeq([i \in 1 .. num_nodes |-> reachable[i] * remaining_graph[<<i - 1, j - 1>>]]) > 0
        THEN 1 ELSE reachable[j]] \o <<>>

\* jax.lax.scan(update_reachable, reachable, jnp.arange(rounds))
RECURSIVE scan_reachable(_, _, _, _)
scan_reachable(reachable, remaining_graph, num_nodes, rounds) ==
    IF rounds <= 0 THEN reachable
    ELSE scan_reachable(update_reachable(reachable, remaining_graph, num_nodes),
                        remaining_graph, num_nodes, rounds - 1)

\* The locals of get_cutset_from_path from the cut set on.
cutset_partitions(path_adjacency, cutset_adjacency, remaining_graph, num_nodes, partition1) ==
    [path_adjacency |-> path_adjacency, cutset_adjacency |-> cutset_adjacency,
     remaining_graph |-> remaining_graph,
     partition1 |-> partition1, partition2 |-> Complement(partition1)]

cutset_reached(path_adjacency, cutset_adjacency, remaining_graph, num_nodes) ==
    cutset_partitions(path_adjacency, cutset_adjacency, remaining_graph, num_nodes,
                      scan_reachable([j \in 1 .. num_nodes |-> IF j = 1 THEN 1 ELSE 0],
                                     remaining_graph, num_nodes, num_nodes - 1))

cutset_removed(path_adjacency, cutset_adjacency, adjacency, num_nodes) ==
    cutset_reached(path_adjacency, cutset_adjacency,
                   remaining_graph_of(adjacency, cutset_adjacency, num_nodes), num_nodes)

cutset_of_path(path_adjacency, adjacency, num_nodes) ==
    cutset_removed(path_adjacency,
                   find_cutset_adj(make_complete_subgraph(path_adjacency, adjacency, num_nodes),
                                   adjacency, num_nodes),
                   adjacency, num_nodes)

\* The locals of one call of get_cutset_from_path.
cutset_locals(path_array, adjacency, source_nodes, dest_nodes, num_nodes) ==
    cutset_of_path(edges_to_adjacency(path_array, source_nodes, dest_nodes, num_nodes),
                   adjacency, num_nodes)

\* get_cutset_from_path(path_array, adjacency, source_nodes, dest_nodes)
get_cutset_from_path(path_array, adjacency, source_nodes, dest_nodes, num_nodes) ==
    <<cutset_locals(path_array, adjacency, source_nodes, dest_nodes, num_nodes).partition1,
      cutset_locals(path_array, adjacency, source_nodes, dest_nodes, num_nodes).partition2>>

\* get_cutset_partitions_and_congestion(_, i)
cut_of_row(path, locals, source_nodes, dest_nodes, adjacency_matrix, traffic_matrix) ==
    [path |-> path, locals |-> locals,
     congestion |-> calculate_congestion(locals.partition1, adjacency_matrix, traffic_matrix,
                                         source_nodes, dest_nodes),
     p1 |-> locals.partition1, p2 |-> locals.partition2]

\* find_congested_cuts_simple: one entry per row of path_link_array.
find_congested_cuts_simple(path_link_array, source_nodes, dest_nodes, adjacency_matrix, traffic_matrix, num_nodes) ==
    [i \in 1 .. Len(path_link_array) |->
        cut_of_row(path_link_array[i],
                   cutset_locals(path_link_array[i], adjacency_matrix, source_nodes,
                                 dest_nodes, num_nodes),
                   source_nodes, dest_nodes, adjacency_matrix, traffic_matrix)] \o <<>>

\* The rows of params.path_link_array: the simple paths of the topology, each
\* as the 0/1 row of the links it uses.
NodePaths(graph) ==
    UNION {{p \in [1 .. k -> Nodes(graph.n)] :
              /\ \A i, j \in 1 .. k : i # j => p[i] # p[j]
              /\ \A i \in 1 .. (k - 1) : adj_matrix_of(graph)[<<p[i], p[i + 1]>>] = 1} :
           k \in 2 .. graph.n}

RowOf(graph, p) ==
    [e \in 1 .. Len(graph.edges) |->
        IF \E i \in 1 .. (Len(p) - 1) :
              \/ graph.edges[e] = <<p[i], p[i + 1]>>
              \/ graph.edges[e] = <<p[i + 1], p[i]>>
        THEN 1 ELSE 0] \o <<>>

PathRows(graph) == {RowOf(graph, p) : p \in NodePaths(graph)}

\* The tables of 1..MaxPaths rows.
PathTables(graph) == UNION {[1 .. k -> PathRows(graph)] : k \in 1 .. MaxPaths}

InitSimple ==
    /\ EstIdle
    /\ TrainIdle
    /\ UtilIdle

FindCongestedCutsSimple ==
    /\ pc = "idle"
    /\ call = Idle
    /\ \E graph \in Topologies :
       \E path_link_array \in PathTables(graph) :
          call' = [fn |-> "find_congested_cuts_simple", graph |-> graph,
                   path_link_array |-> path_link_array,
                   rows |-> find_congested_cuts_simple(
                                path_link_array, source_nodes_of(graph),
                                destination_nodes_of(graph), adj_matrix_of(graph),
                                [ij \in Nodes(graph.n) \X Nodes(graph.n) |->
                                    IF ij[1] = ij[2] THEN 0 ELSE 1],
                                graph.n)]
    /\ UNCHANGED <<est_vars, train_vars, fs, warmup>>

NextSimple == FindCongestedCutsSimple

SpecSimple == InitSimple /\ [][NextSimple]_vars

NodesOf(partition) == {j \in Nodes(Len(partition)) : partition[j + 1] = 1}

StartVector(num_nodes) == [j \in 1 .. num_nodes |-> IF j = 1 THEN 1 ELSE 0]

AfterRounds(row, num_nodes, rounds) ==
    NodesOf(scan_reachable(StartVector(num_nodes), row.locals.remaining_graph,
                           num_nodes, rounds))

RemainingIsFullMinusCutset(row, graph) ==
    \A ij \in Nodes(graph.n) \X Nodes(graph.n) :
        row.locals.remaining_graph[ij] # 0
            <=> (adj_matrix_of(graph)[ij] # 0 /\ row.locals.cutset_adjacency[ij] = 0)

ComponentOfNode0(row, graph) ==
    /\ RemainingIsFullMinusCutset(row, graph)
    /\ \A j \in 1 .. graph.n : row.p1[j] \in {0, 1}
    /\ NodesOf(row.p1) = ReachedFrom({0}, row.locals.remaining_graph, graph.n)
    /\ 0 \in NodesOf(row.p1)
    /\ NodesOf(row.p2) = Nodes(graph.n) \ NodesOf(row.p1)
    /\ \A j \in 1 .. graph.n : row.p2[j] = 1 - row.p1[j]
    /\ \A r \in 0 .. (graph.n - 1) :
          AfterRounds(row, graph.n, r) \subseteq AfterRounds(row, graph.n, r + 1)
    /\ AfterRounds(row, graph.n, graph.n - 1) = NodesOf(row.p1)
    /\ AfterRounds(row, graph.n, graph.n) = NodesOf(row.p1)

\* C22: in path-derived mode, for every graph and every path row, partition1
\* of get_cutset_from_path is the set of nodes reachable from node 0 in the
\* full graph minus the cutset edges: n - 1 rounds suffice, a node once
\* reached stays reached, node 0 is in partition1, partition2 is the
\* complement.
C22_Partition1IsComponentOfNode0 ==
    call.fn = "find_congested_cuts_simple"
        => \A i \in 1 .. Len(call.rows) : ComponentOfNode0(call.rows[i], call.graph)

C22_Witness ==
    /\ call.fn = "find_congested_cuts_simple"
    /\ \E i \in 1 .. Len(call.rows) :
         /\ Cardinality(NodesOf(call.rows[i].p1)) = 3
         /\ AfterRounds(call.rows[i], call.graph.n, 1) # NodesOf(call.rows[i].p1)
         /\ \E ij \in Nodes(call.graph.n) \X Nodes(call.graph.n) :
               call.rows[i].locals.cutset_adjacency[ij] = 1

\* The top_k of a process's output by congestion.
ReselectedTopK(output, top_k) ==
    \E congestions \in {[r \in 1 .. Len(output) |-> output[r].congestion] \o <<>>} :
       \E kept \in {last_k(argsort(congestions), top_k)} :
          /\ Len(output) = Len(kept)
          /\ \A t \in 1 .. Len(kept) : kept[t] = t

\* C23: in exhaustive mode the return value of find_congested_cuts_exhaustive
\* holds at most top_k candidates for each process, the top_k by congestion
\* over the concatenation of the results of its iterations.
C23_ProcessOutputReselected ==
    pc = "post"
        => \A p \in 1 .. Len(heavy_cut_sets) :
              /\ Len(heavy_cut_sets[p]) <= cfg.CUTSET_TOP_K
              /\ ReselectedTopK(heavy_cut_sets[p], cfg.CUTSET_TOP_K)

(***************************************************************************)
(* calculate_congestion as a function of its arguments: any partition mask *)
(* of any of the topologies, and of a six-node topology in which a side    *)
(* can hold two pairs of neighbours with no link between the pairs.        *)
(***************************************************************************)
\* The links 0-1 and 2-3, each tied to the link 4-5.
Bridged6 == [n |-> 6, edges |-> << <<0, 1>>, <<1, 4>>, <<2, 3>>, <<3, 5>>, <<4, 5>> >>]

CongestionGraphs == Topologies \cup {Bridged6}

InitCongestion ==
    /\ EstIdle
    /\ TrainIdle
    /\ UtilIdle

CalculateCongestion ==
    /\ pc = "idle"
    /\ call = Idle
    /\ \E graph \in CongestionGraphs :
       \E partition_mask \in AllMasks(graph.n), traffic_matrix \in TrafficMatrices(graph.n) :
          call' = [fn |-> "calculate_congestion", graph |-> graph,
                   partition_mask |-> partition_mask \o <<>>,
                   traffic_matrix |-> traffic_matrix,
                   locals |-> congestion_locals(partition_mask \o <<>>, adj_matrix_of(graph),
                                                traffic_matrix, source_nodes_of(graph),
                                                destination_nodes_of(graph)),
                   returned |-> calculate_congestion(partition_mask \o <<>>,
                                                     adj_matrix_of(graph), traffic_matrix,
                                                     source_nodes_of(graph),
                                                     destination_nodes_of(graph))]
    /\ UNCHANGED <<est_vars, train_vars, fs, warmup>>

NextCongestion == CalculateCongestion

SpecCongestion == InitCongestion /\ [][NextCongestion]_vars

Side(mask, bit) == {v \in Nodes(Len(mask)) : mask[v + 1] = bit}

\* The subgraph that the nodes of S induce is connected.
InducedConnected(g, S) ==
    \A v \in S :
        S = ReachedFrom({v}, [ij \in Nodes(g.n) \X Nodes(g.n) |->
                                IF ij[1] \in S /\ ij[2] \in S /\ Adjacent(g, ij[1], ij[2])
                                THEN 1 ELSE 0], g.n)

GatePasses == call.locals.both_connected = 1

TwoPairsOnOneSide ==
    /\ call.graph = Bridged6
    /\ call.partition_mask = <<1, 1, 1, 1, 0, 0>>

\* C24: the connectivity gate of calculate_congestion passes for every
\* partition whose two sides each induce a connected subgraph of at least
\* two nodes, and it passes too, with the raw congestion returned, for the
\* partition whose one side is two pairs of neighbours with no link between
\* the pairs, a side that induces a disconnected subgraph.
C24_GateWeakerThanConnectedness ==
    call.fn = "calculate_congestion"
        => /\ (/\ Cardinality(Side(call.partition_mask, 1)) >= 2
               /\ Cardinality(Side(call.partition_mask, 0)) >= 2
               /\ InducedConnected(call.graph, Side(call.partition_mask, 1))
               /\ InducedConnected(call.graph, Side(call.partition_mask, 0)))
                 => (GatePasses /\ call.returned = call.locals.raw)
           /\ TwoPairsOnOneSide
                 => /\ ~InducedConnected(call.graph, Side(call.partition_mask, 1))
                    /\ GatePasses
                    /\ call.returned = call.locals.raw
                    /\ (call.locals.traffic_across_cut > 0 => FracLess(Zero, call.returned))

C24_Witness ==
    /\ call.fn = "calculate_congestion"
    /\ TwoPairsOnOneSide
    /\ GatePasses
    /\ ~InducedConnected(call.graph, Side(call.partition_mask, 1))
    /\ call.locals.traffic_across_cut > 0
    /\ FracLess(Zero, call.returned)

LoneNodeSide(mask) == Cardinality(Side(mask, 1)) = 1 \/ Cardinality(Side(mask, 0)) = 1

\* C26: for every graph and traffic matrix, calculate_congestion returns 0
\* for every partition mask one side of which is a single node.
C26_SingleNodeCutScoresZero ==
    (call.fn = "calculate_congestion" /\ LoneNodeSide(call.partition_mask))
        => /\ call.returned = Zero
           /\ ~GatePasses

C26_Witness ==
    /\ call.fn = "calculate_congestion"
    /\ LoneNodeSide(call.partition_mask)
    /\ call.graph.n >= 4
    /\ call.locals.cut_size > 0
    /\ FracLess(Zero, call.locals.raw)
    /\ call.returned = Zero

\* The positions (from 1) of the done flags in the flattened done array.
FlagPositions(done) ==
    SelectSeq([k \in 1 .. Len(Flatten(done)) |-> k] \o <<>>,
              LAMBDA k : Flatten(done)[k] = Frac(1, 1))

\* The environment whose row holds position p of the flattened array.
RowOfPosition(done, p) == ((p - 1) \div Len(done[1])) + 1

\* C25: in the end_first_blocking regime, the episode-end sample index of
\* every done flag is the flattened position just before the flag, a valid
\* index in the row of the same environment: it neither wraps around to the
\* last entry nor falls in the row of another environment.
C25_EpisodeEndIndexInSameRow ==
    (call.fn = "log_metrics" /\ call.config.end_first_blocking)
        => /\ Len(call.episode_ends) = Len(FlagPositions(call.done))
           /\ \A h \in 1 .. Len(call.episode_ends) :
                /\ call.episode_ends[h] = FlagPositions(call.done)[h] - 1
                /\ call.episode_ends[h] >= 1
                /\ RowOfPosition(call.done, call.episode_ends[h])
                     = RowOfPosition(call.done, FlagPositions(call.done)[h])

\* The links (as indices of the sorted edge list) that a cutset matrix marks.
LinksOfMatrix(g, cutset_adjacency) ==
    {k \in 1 .. Len(g.edges) : cutset_adjacency[g.edges[k]] = 1}

\* The links that find_cutset_edges marks for the partitions of a row.
LinksRecomputed(g, row) ==
    {k \in 1 .. Len(g.edges) :
        find_cutset_edges(row.p1, row.p2, source_nodes_of(g), destination_nodes_of(g))[k] = 1}

\* C27: in path-derived mode, for every connected topology and every path
\* row, the cutset that find_cutset_edges recomputes from the returned
\* partitions is the cutset built in get_cutset_from_path for that path.
C27_RecomputedCutsetIsPathCutset ==
    (call.fn = "find_congested_cuts_simple" /\ InducedConnected(call.graph, Nodes(call.graph.n)))
        => \A i \in 1 .. Len(call.rows) :
              LinksRecomputed(call.graph, call.rows[i])
                = LinksOfMatrix(call.graph, call.rows[i].locals.cutset_adjacency)

\* C28: the values log_metrics prints, and the per-step columns of the
\* trajectory file, are those of the full-resolution series whatever
\* config.WANDB and config.DOWNSAMPLE_FACTOR: under
\* config.continuous_operation the printed value is the last entry of the
\* full-resolution per-step series.
C28_PrintsIgnoreDownsampling ==
    call.fn = "log_metrics"
        => /\ call.printed = printed_values(call.config, call.episode_end, call.series)
           /\ call.trajectory =
                  trajectory_file(call.config, [done |-> call.done],
                                  printed_values(call.config, call.episode_end,
                                                 call.series),
                                  call.series)

\* C29: in every warmup step the key handed to select_action is the sub-key
\* split off for it, different from the key carried into the next step and
\* from the key given to env.step.
C29_SelectKeyIsItsOwnSubkey ==
    WarmupCalled
        => \A k \in 1 .. Len(warmup.iterations) :
              /\ warmup.iterations[k].select_key = warmup.iterations[k].action_key
              /\ warmup.iterations[k].select_key # warmup.iterations[k].carried_key
              /\ warmup.iterations[k].select_key # warmup.iterations[k].step_key
              /\ (k = Len(warmup.iterations)
                    => warmup.iterations[k].carried_key = warmup.vals[1])

\* C30: apply_gradients is a functional update: the instance it is called on
\* keeps its step, params and opt_state, and the returned instance has the
\* apply_fn and tx of the original, except for those named in the extra
\* keyword fields, which take the values supplied.
C30_ApplyGradientsIsFunctional ==
    last_call.op = "apply_gradients"
        => /\ last_call.self_after.step = last_call.self.step
           /\ last_call.self_after.params = last_call.self.params
           /\ last_call.self_after.opt_state = last_call.self.opt_state
           /\ train_state.step = last_call.self.step + 1
           /\ \A f \in {"apply_fn", "tx"} :
                train_state[f] = IF f \in DOMAIN last_call.kwargs
                                 THEN last_call.kwargs[f] ELSE last_call.self[f]

C30_Witness ==
    /\ last_call.op = "apply_gradients"
    /\ DOMAIN last_call.kwargs = {"tx"}
    /\ train_state.tx # last_call.self.tx
    /\ train_state.apply_fn = last_call.self.apply_fn
    /\ train_state.params # last_call.self.params
    /\ train_state.opt_state # last_call.self.opt_state
    /\ last_call.self_after = last_call.self

====
